---- MODULE Spec2Model ----
(***************************************************************************)
(* Model of the fallback removal engines of fs-remove-compat:              *)
(*   - the non-blocking engine  fallbackRm      (src/fallback/rm.ts)       *)
(*   - the blocking engine      fallbackRmSync  (src/fallback/rmSync.ts)   *)
(*   - the permission repair    fixWinEPERM / fixWinEPERMSync              *)
(* over a small file system, with symbolic links, whose operations may     *)
(* fail; and of the classifier and the backoff delay of retry.ts.          *)
(*                                                                         *)
(* A path that is absent answers ENOENT to every operation; a path that    *)
(* is present answers success or, while the fault budget lasts, one of     *)
(* the injected error codes.  Entries vanish under the engine only by      *)
(* ExternalRemove (another process), which draws on the same budget.       *)
(***************************************************************************)
EXTENDS Integers, Sequences, FiniteSets, TLC

\* ------------------------------------------------------------------ bounds
MaxRetriesOpt == 1      \* largest maxRetries a request is given
MaxFaults     == 2      \* disturbances per behaviour: injected operation
                        \* failures and removals by another process
MaxRequests   == 2      \* requests made on the path, one after the other
MaxDelay      == 130    \* largest retryDelay handed to getBackoffDelay
MaxAttempt    == 3      \* largest attempt handed to getBackoffDelay

\* ------------------------------------------------------------- file system
Root  == "r"
Nodes == {"r", "r/a", "r/b", "r/a/c"}

Parent(n) ==
  CASE n = "r/a"   -> "r"
    [] n = "r/b"   -> "r"
    [] n = "r/a/c" -> "r/a"
    [] OTHER       -> "r"

Children(d) == {c \in Nodes \ {Root} : Parent(c) = d}

RECURSIVE Descendants(_)
Descendants(d) ==
  Children(d) \cup UNION {Descendants(c) : c \in Children(d)}

\* The trees a request can be started on: the set of present paths and the
\* set of those that are directories.
Trees ==
  { [present |-> {},                         dirs |-> {}],
    [present |-> {"r"},                      dirs |-> {}],
    [present |-> {"r"},                      dirs |-> {"r"}],
    [present |-> {"r", "r/a"},               dirs |-> {"r"}],
    [present |-> {"r", "r/a", "r/b"},        dirs |-> {"r"}],
    [present |-> {"r", "r/a", "r/b"},        dirs |-> {"r", "r/a"}],
    [present |-> {"r", "r/a", "r/a/c"},      dirs |-> {"r", "r/a"}],
    [present |-> Nodes,                      dirs |-> {"r", "r/a"}] }

\* Paths outside the tree of the request: what a symbolic link of the tree
\* points at, and an entry of it when it is a directory.
LinkTarget == "t"
Outside    == {"t", "t/c"}
AllPaths   == Nodes \cup Outside

\* The trees with a symbolic link: the request path itself is a link (to
\* nothing, to a file, to a directory), or an entry of the walked directory is
\* a link (to a directory with an entry, to nothing).
LinkTrees ==
  { [present |-> {"r"},                         dirs |-> {},         links |-> {"r"}],
    [present |-> {"r", "t"},                    dirs |-> {},         links |-> {"r"}],
    [present |-> {"r", "t", "t/c"},             dirs |-> {"t"},      links |-> {"r"}],
    [present |-> {"r", "r/a", "r/b", "t", "t/c"}, dirs |-> {"r", "t"}, links |-> {"r/a"}],
    [present |-> {"r", "r/a"},                  dirs |-> {"r"},      links |-> {"r/a"}] }

\* All orders in which an enumeration may return a set of names.
Perms(S) ==
  {s \in [1..Cardinality(S) -> S] : \A i, j \in 1..Cardinality(S) : i # j => s[i] # s[j]}

\* ------------------------------------------------------------- error codes
RETRYABLE_CODES == {"EBUSY", "EMFILE", "ENFILE", "ENOTEMPTY", "EPERM"}

\* The list of fallback/rmSync.ts short of one code (mutant).
RETRYABLE_CODES_rmSync_NoENFILE == {"EBUSY", "EMFILE", "ENOTEMPTY", "EPERM"}

\* const RETRYABLE_CODES of fallback/rmSync.ts
RETRYABLE_CODES_rmSync == {"EBUSY", "EMFILE", "ENFILE", "ENOTEMPTY", "EPERM"}

\* const RETRYABLE_CODES of retry.ts
RETRYABLE_CODES_retry == {"EBUSY", "EMFILE", "ENFILE", "ENOTEMPTY", "EPERM"}

RemoveFaults == {"EBUSY", "EPERM", "EACCES"}   \* injected into unlink / rmdir
StatFaults   == {"EACCES"}                     \* injected into lstat / stat / readdir / chmod

VARIABLES
  exists,      \* file system: the paths that are present
  kind,        \* file system: "dir", "file" or "link" of each path
  mode,        \* "async" (fallbackRm) or "sync" (fallbackRmSync)
  isWindows,   \* IS_WINDOWS of fixWinEPERM.ts
  opts,        \* the resolved options of the request
  node,        \* per path: the state of the operation the engine runs on it
  top,         \* the caller's view: times signalled and the outcome
  env,         \* budgets used, and history of the file system
  calc,        \* retry.ts: the arguments and results of its functions
  safe         \* safeRm / safeRmSync: the calls of the safe variants

vars == <<exists, kind, mode, isWindows, opts, node, top, env, calc, safe>>

\* ------------------------------------------------------------------- state
\* phase:  idle | lstat | readdir | wait | unlink | rmdir | timer |
\*         chmod | stat | fixrm | done |
\*         skipped  (stat answered ENOENT, tolerated under force) |
\*         statfail (stat failed, the walk latched the error) |
\*         dropped  (stat completed after the walk had latched an error)
\* async: the phase names the operation in flight (or the armed timer);
\* sync : the phase names the operation the calling thread performs next.
NodeInit ==
  [ phase    |-> "idle",
    attempt  |-> 0,          \* the attempt argument / loop counter
    err      |-> "none",     \* the error handed to retryOrFail / the repair
    fn       |-> "none",     \* retryFn: "unlink" or "rmdir"
    pending  |-> 0,          \* rmdirRecursive: let pending
    hasError |-> FALSE,      \* rmdirRecursive: let hasError
    entries  |-> << >>,      \* the names the enumeration returned
    idx      |-> 0,          \* rmdirRecursiveSync: loop index i (1-based)
    res      |-> "none",     \* outcome this operation delivered
    cbs      |-> 0,          \* times this operation's callback was invoked
    \* history, read by the properties only
    calls    |-> 0,          \* unlink/rmdir calls made by the retry loop
    fixCalls |-> 0,          \* unlink/rmdir calls made inside the repair
    waits    |-> 0,          \* backoff waits started
    delays   |-> << >>,      \* their lengths in ms, in order
    okCalls  |-> 0,          \* retry-loop calls that succeeded
    rtFails  |-> 0,          \* retry-loop calls that failed with a retryable code
    lastErr  |-> "none",     \* code of the latest failed retry-loop call
    fixes    |-> 0,          \* repairs started
    fixOK    |-> FALSE,      \* a repair removed the entry
    fixRt    |-> 0,          \* repair unlink/rmdir calls that failed, retryable code
    fixBad   |-> FALSE,      \* a repair unlink/rmdir failed with another code
    statErr  |-> "none",     \* code of the failed stat of this entry
    readErr  |-> "none",     \* code of the failed enumeration of this directory
    \* what the latest repair delivered: nothing yet, success, the original
    \* error it was given, or the error of its own step
    fixErr   |-> [who |-> "none", code |-> "none"],
    fixStep  |-> "none",     \* the step of the repair that answered last
    fixAt    |-> 0,          \* the attempt during which the repair ran
    settled  |-> << >> ]     \* children in the order they settled

\* The retryDelay values a request is given: the default and another.
RetryDelays == {100, 125}

TopInit == [cbCount |-> 0, result |-> "none", started |-> FALSE]

EnvInit == [faults |-> 0, externals |-> 0, mutations |-> 0,
            budget |-> MaxFaults,   \* disturbances the behaviour may see
            absentAtStart |-> FALSE, disturbed |-> FALSE,
            reqs |-> 1, prior |-> "none", priorMut |-> 0,
            exists0 |-> {},      \* the paths present when the request started
            through |-> {},      \* paths fs.stat reached by following a link
            modded  |-> {}]      \* paths whose mode an operation changed

\* retry.ts is not in use while an engine runs.
CalcIdle == [fn |-> "none"]

\* No safe variant is called while a fallback engine is driven directly.
SafeIdle == [api |-> "none"]

\* A request with options drawn from O is about to be made on a tree; B
\* disturbances may follow.
Start(O, B) ==
  /\ \/ \E t \in Trees :
          /\ exists = [n \in AllPaths |-> n \in t.present]
          /\ kind   = [n \in AllPaths |-> IF n \in t.dirs THEN "dir" ELSE "file"]
     \/ \E t \in LinkTrees :
          /\ exists = [n \in AllPaths |-> n \in t.present]
          /\ kind   = [n \in AllPaths |-> IF n \in t.dirs THEN "dir"
                                         ELSE IF n \in t.links THEN "link"
                                         ELSE "file"]
  /\ mode \in {"async", "sync"}
  /\ isWindows \in BOOLEAN
  /\ opts \in O
  /\ node = [n \in Nodes |-> NodeInit]
  /\ top  = TopInit
  /\ env  = [EnvInit EXCEPT !.budget = B]
  /\ calc = CalcIdle
  /\ safe = SafeIdle

Init ==
  Start([recursive : BOOLEAN, force : BOOLEAN,
         maxRetries : 0..MaxRetriesOpt, retryDelay : {100}], MaxFaults)

\* Requests that may retry a leaf more than once, with either delay.
DelayInit ==
  Start([recursive : BOOLEAN, force : BOOLEAN,
         maxRetries : {0, MaxRetriesOpt + 1}, retryDelay : RetryDelays], MaxFaults)

\* Recursive requests on Windows that may retry, and may be disturbed once
\* more: a leaf can fail, fail to be repaired and fail again.
RepairInit ==
  /\ Start([recursive : {TRUE}, force : BOOLEAN,
            maxRetries : {MaxRetriesOpt}, retryDelay : {100}], MaxFaults + 1)
  /\ isWindows

\* -------------------------------------------------- file system operations
\* Outcomes of an operation on path n that can be injected with `codes`.
FsOutcomes(n, codes) ==
  IF ~exists[n] THEN {"ENOENT"}
  ELSE {"ok"} \cup (IF env.faults + env.externals < env.budget THEN codes ELSE {})

\* rmdir of a directory that still has entries answers ENOTEMPTY.
RmdirOutcomes(n) ==
  IF exists[n] /\ \E c \in Children(n) : exists[c]
  THEN {"ENOTEMPTY"}
  ELSE FsOutcomes(n, RemoveFaults)

Injected(r) == r \notin {"ok", "ENOENT", "ENOTEMPTY", "ENOTDIR"}

\* fs.stat and fs.chmod resolve a symbolic link; fs.lstat, fs.unlink and
\* fs.rmdir act on the link itself.
Follow(n) == IF kind[n] = "link" THEN LinkTarget ELSE n

\* The error object a failing step of the repair hands on: the original error
\* it was given, or the error of the step itself.
OriginalError(e) == [who |-> "original", code |-> e]
StepError(e)     == [who |-> "step", code |-> e]
Repaired         == [who |-> "ok", code |-> "none"]

\* Outcomes of fs.stat / fs.chmod of n: those of what n resolves to.
FollowOutcomes(n) ==
  IF ~exists[n] THEN {"ENOENT"} ELSE FsOutcomes(Follow(n), StatFaults)

\* The paths fs.stat / fs.chmod of n reached behind a link.
Reached(n) ==
  IF exists[n] /\ kind[n] = "link" /\ exists[LinkTarget] THEN {LinkTarget} ELSE {}

\* Outcomes of the fs.rmdir / fs.unlink of the repair, chosen by what fs.stat
\* said: fs.rmdir of a link to a directory removes the link (win32) or answers
\* ENOTDIR (POSIX).
FixRmOutcomes(n) ==
  IF kind[Follow(n)] = "dir"
  THEN IF kind[n] = "link"
       THEN IF exists[n] THEN FsOutcomes(n, RemoveFaults) \cup {"ENOTDIR"}
            ELSE {"ENOENT"}
       ELSE RmdirOutcomes(n)
  ELSE FsOutcomes(n, RemoveFaults)

Charge(r) ==
  [env EXCEPT !.faults = IF Injected(r) THEN @ + 1 ELSE @]

\* A successful unlink / rmdir takes the path away.
Removed(n, r) ==
  IF r = "ok" THEN [exists EXCEPT ![n] = FALSE] ELSE exists

ChargeRemove(r) ==
  [env EXCEPT !.faults    = IF Injected(r) THEN @ + 1 ELSE @,
              !.mutations = IF r = "ok" THEN @ + 1 ELSE @]

\* shouldFixEPERM that does not look at the platform (mutant).
shouldFixEPERM_AnyPlatform(e) == e = "EPERM"

\* shouldFixEPERM
shouldFixEPERM(e) == isWindows /\ e = "EPERM"

\* History of one completed unlink / rmdir of the repair with outcome r.
LoggedFix(nd, n, r) ==
  [nd EXCEPT ![n].fixOK  = (r = "ok"),
             ![n].fixRt  = IF r \in RETRYABLE_CODES THEN @ + 1 ELSE @,
             ![n].fixBad = IF r # "ok" /\ r \notin RETRYABLE_CODES THEN TRUE ELSE @]

\* History of one completed retry-loop call with outcome r.
Logged(nd, n, r) ==
  [nd EXCEPT ![n].okCalls = IF r = "ok" THEN @ + 1 ELSE @,
             ![n].rtFails = IF r \in RETRYABLE_CODES THEN @ + 1 ELSE @,
             ![n].lastErr = IF r # "ok" THEN r ELSE @]

\* The part of the state the handlers of the engines rewrite.
World == [node |-> node, top |-> top]

\* =========================================================================
\* Non-blocking engine: fallback/rm.ts
\* =========================================================================

\* unlinkWithRetry: issue fs.unlink for attempt `a`.
unlinkWithRetry(W, n, a) ==
  [W EXCEPT !.node[n].phase = "unlink", !.node[n].fn = "unlink",
            !.node[n].attempt = a, !.node[n].calls = @ + 1]

\* rmdirWithRetry: issue fs.rmdir for attempt `a`.
rmdirWithRetry(W, n, a) ==
  [W EXCEPT !.node[n].phase = "rmdir", !.node[n].fn = "rmdir",
            !.node[n].attempt = a, !.node[n].calls = @ + 1]

\* rmdirRecursive: issue fs.readdir.
rmdirRecursive(W, n) ==
  [W EXCEPT !.node[n].phase = "readdir"]

RECURSIVE callback(_, _, _)
RECURSIVE onDone(_, _, _)

\* The callback an operation on n was given: the caller's callback for the
\* request path, the onDone closure of the enclosing walk otherwise.
callback(W, n, e) ==
  LET W1 == [W EXCEPT !.node[n].phase = "done", !.node[n].res = e,
                      !.node[n].cbs = @ + 1]
  IN IF n = Root
     THEN [W1 EXCEPT !.top.cbCount = @ + 1,
                     !.top.result  = IF W.top.cbCount = 0 THEN e ELSE @]
     ELSE onDone(W1, n, e)

\* onDone without the hasError latch (mutant).
onDone_NoLatch(W, c, e) ==
  LET d == Parent(c) IN
  IF e # "ok"
  THEN callback([W EXCEPT !.node[d].hasError = TRUE], d, e)
  ELSE LET W1 == [W EXCEPT !.node[d].pending = @ - 1,
                           !.node[d].settled = Append(@, c)]
       IN IF W1.node[d].pending = 0 THEN rmdirWithRetry(W1, d, 0) ELSE W1

\* onDone that compares pending with the count before its decrement (mutant).
onDone_OffByOne(W, c, e) ==
  LET d == Parent(c) IN
  IF W.node[d].hasError THEN W
  ELSE IF e # "ok"
       THEN callback([W EXCEPT !.node[d].hasError = TRUE], d, e)
       ELSE LET W1 == [W EXCEPT !.node[d].pending = @ - 1,
                                !.node[d].settled = Append(@, c)]
            IN IF W1.node[d].pending = 1 THEN rmdirWithRetry(W1, d, 0) ELSE W1

\* onDone that reports the failure of a child as ENOTEMPTY of the directory
\* (mutant).
onDone_Wraps(W, c, e) ==
  LET d == Parent(c) IN
  IF W.node[d].hasError THEN W
  ELSE IF e # "ok"
       THEN callback([W EXCEPT !.node[d].hasError = TRUE], d, "ENOTEMPTY")
       ELSE LET W1 == [W EXCEPT !.node[d].pending = @ - 1,
                                !.node[d].settled = Append(@, c)]
            IN IF W1.node[d].pending = 0 THEN rmdirWithRetry(W1, d, 0) ELSE W1

\* onDone of rmdirRecursive, for the child c of the walked directory.
onDone(W, c, e) ==
  LET d == Parent(c) IN
  IF W.node[d].hasError THEN W
  ELSE IF e # "ok"
       THEN callback([W EXCEPT !.node[d].hasError = TRUE], d, e)
       ELSE LET W1 == [W EXCEPT !.node[d].pending = @ - 1,
                                !.node[d].settled = Append(@, c)]
            IN IF W1.node[d].pending = 0 THEN rmdirWithRetry(W1, d, 0) ELSE W1

\* retryOrFail that gives up one attempt early (mutant).
retryOrFail_GiveUpEarly(W, n, a, e) ==
  IF e \notin RETRYABLE_CODES \/ a + 1 >= opts.maxRetries
  THEN callback(W, n, e)
  ELSE [W EXCEPT !.node[n].phase = "timer", !.node[n].err = e,
                 !.node[n].waits = @ + 1,
                 !.node[n].delays = Append(@, opts.retryDelay)]

\* retryOrFail that grants one attempt too many (mutant).
retryOrFail_OneMore(W, n, a, e) ==
  IF e \notin RETRYABLE_CODES \/ a > opts.maxRetries
  THEN callback(W, n, e)
  ELSE [W EXCEPT !.node[n].phase = "timer", !.node[n].err = e,
                 !.node[n].waits = @ + 1,
                 !.node[n].delays = Append(@, opts.retryDelay)]

\* retryOrFail whose wait grows with the attempt (mutant).
retryOrFail_Linear(W, n, a, e) ==
  IF e \notin RETRYABLE_CODES \/ a >= opts.maxRetries
  THEN callback(W, n, e)
  ELSE [W EXCEPT !.node[n].phase = "timer", !.node[n].err = e,
                 !.node[n].waits = @ + 1,
                 !.node[n].delays = Append(@, opts.retryDelay * (a + 1))]

\* retryOrFail
retryOrFail(W, n, a, e) ==
  IF e \notin RETRYABLE_CODES \/ a >= opts.maxRetries
  THEN callback(W, n, e)
  ELSE [W EXCEPT !.node[n].phase = "timer", !.node[n].err = e,
                 !.node[n].waits = @ + 1,
                 !.node[n].delays = Append(@, opts.retryDelay)]

\* unlinkWithRetry without its ENOENT branch: the error goes to retryOrFail
\* (mutant).
unlinkWithRetry_ENOENT_FallThrough(W, n, e) ==
  retryOrFail(W, n, W.node[n].attempt, e)

\* unlinkWithRetry: the ENOENT branch of the fs.unlink callback.
unlinkWithRetry_ENOENT(W, n, e) ==
  IF opts.force THEN callback(W, n, "ok") ELSE callback(W, n, e)

\* rmdirWithRetry: the ENOENT branch of the fs.rmdir callback.
rmdirWithRetry_ENOENT(W, n, e) ==
  IF opts.force THEN callback(W, n, "ok") ELSE callback(W, n, e)

\* fixWinEPERM: issue fs.chmod.
fixWinEPERM(W, n, e) ==
  [W EXCEPT !.node[n].phase = "chmod", !.node[n].err = e,
            !.node[n].fixes = @ + 1, !.node[n].fixAt = W.node[n].attempt]

Commit(W) == node' = W.node /\ top' = W.top

\* fallbackRm: resolve the options and issue the lstat of the request path.
fallbackRm ==
  /\ mode = "async" /\ ~top.started
  /\ top'  = [top EXCEPT !.started = TRUE]
  /\ node' = [node EXCEPT ![Root].phase = "lstat"]
  /\ env'  = [env EXCEPT !.absentAtStart = ~exists[Root],
                         !.exists0 = {x \in AllPaths : exists[x]}]
  /\ UNCHANGED <<calc, safe, exists, kind, mode, isWindows, opts>>

\* fallbackRm whose lstat callback does not look at force (mutant).
fallbackRm_lstat_NoForce ==
  /\ mode = "async" /\ node[Root].phase = "lstat"
  /\ \E r \in FsOutcomes(Root, StatFaults) :
       /\ env' = Charge(r)
       /\ Commit(
            IF r # "ok"
            THEN callback([World EXCEPT !.node[Root].statErr = r], Root, r)
            ELSE IF kind[Root] = "dir"
                 THEN IF ~opts.recursive
                      THEN callback(World, Root, "EISDIR")
                      ELSE rmdirRecursive(World, Root)
                 ELSE unlinkWithRetry(World, Root, 0))
  /\ UNCHANGED <<calc, safe, exists, kind, mode, isWindows, opts>>

\* fallbackRm whose directory check is skipped when force is set (mutant).
fallbackRm_lstat_ForceWalks ==
  /\ mode = "async" /\ node[Root].phase = "lstat"
  /\ \E r \in FsOutcomes(Root, StatFaults) :
       /\ env' = Charge(r)
       /\ Commit(
            IF r # "ok"
            THEN IF r = "ENOENT"
                 THEN IF opts.force
                      THEN callback([World EXCEPT !.node[Root].statErr = r], Root, "ok")
                      ELSE callback([World EXCEPT !.node[Root].statErr = r], Root, r)
                 ELSE callback([World EXCEPT !.node[Root].statErr = r], Root, r)
            ELSE IF kind[Root] = "dir"
                 THEN IF ~opts.recursive /\ ~opts.force
                      THEN callback(World, Root, "EISDIR")
                      ELSE rmdirRecursive(World, Root)
                 ELSE unlinkWithRetry(World, Root, 0))
  /\ UNCHANGED <<calc, safe, exists, kind, mode, isWindows, opts>>

\* fallbackRm: the lstat callback of the request path.
fallbackRm_lstat ==
  /\ mode = "async" /\ node[Root].phase = "lstat"
  /\ \E r \in FsOutcomes(Root, StatFaults) :
       /\ env' = Charge(r)
       /\ Commit(
            IF r # "ok"
            THEN IF r = "ENOENT"
                 THEN IF opts.force
                      THEN callback([World EXCEPT !.node[Root].statErr = r], Root, "ok")
                      ELSE callback([World EXCEPT !.node[Root].statErr = r], Root, r)
                 ELSE callback([World EXCEPT !.node[Root].statErr = r], Root, r)
            ELSE IF kind[Root] = "dir"
                 THEN IF ~opts.recursive
                      THEN callback(World, Root, "EISDIR")
                      ELSE rmdirRecursive(World, Root)
                 ELSE unlinkWithRetry(World, Root, 0))
  /\ UNCHANGED <<calc, safe, exists, kind, mode, isWindows, opts>>

\* rmdirRecursive that goes on to the rmdir of a directory whose enumeration
\* answered ENOENT under force (mutant).
rmdirRecursive_readdir_RmdirGone(d) ==
  /\ mode = "async" /\ node[d].phase = "readdir"
  /\ \E r \in FsOutcomes(d, StatFaults) :
     \E es \in Perms({c \in Children(d) : exists[c]}) :
       /\ env' = Charge(r)
       /\ Commit(
            IF r # "ok"
            THEN LET W == [World EXCEPT !.node[d].readErr = r] IN
                 IF r = "ENOENT" /\ opts.force
                 THEN rmdirWithRetry(W, d, 0)
                 ELSE callback(W, d, r)
            ELSE LET W1 == [World EXCEPT !.node[d].entries = es,
                                         !.node[d].pending = Len(es)]
                 IN IF Len(es) = 0
                    THEN rmdirWithRetry(W1, d, 0)
                    ELSE [W1 EXCEPT !.node = [n \in Nodes |->
                            IF \E i \in 1..Len(es) : es[i] = n
                            THEN [W1.node[n] EXCEPT !.phase = "lstat"]
                            ELSE IF n = d
                                 THEN [W1.node[n] EXCEPT !.phase = "wait", !.hasError = FALSE]
                                 ELSE W1.node[n]]])
  /\ UNCHANGED <<calc, safe, exists, kind, mode, isWindows, opts>>

\* rmdirRecursive whose pending count starts one short of the number of
\* entries (mutant).
rmdirRecursive_readdir_PendingShort(d) ==
  /\ mode = "async" /\ node[d].phase = "readdir"
  /\ \E r \in FsOutcomes(d, StatFaults) :
     \E es \in Perms({c \in Children(d) : exists[c]}) :
       /\ env' = Charge(r)
       /\ Commit(
            IF r # "ok"
            THEN LET W == [World EXCEPT !.node[d].readErr = r] IN
                 IF r = "ENOENT" /\ opts.force
                 THEN callback(W, d, "ok")
                 ELSE callback(W, d, r)
            ELSE LET W1 == [World EXCEPT !.node[d].entries = es,
                                         !.node[d].pending = Len(es) - 1]
                 IN IF Len(es) = 0
                    THEN rmdirWithRetry(W1, d, 0)
                    ELSE [W1 EXCEPT !.node = [n \in Nodes |->
                            IF \E i \in 1..Len(es) : es[i] = n
                            THEN [W1.node[n] EXCEPT !.phase = "lstat"]
                            ELSE IF n = d
                                 THEN [W1.node[n] EXCEPT !.phase = "wait", !.hasError = FALSE]
                                 ELSE W1.node[n]]])
  /\ UNCHANGED <<calc, safe, exists, kind, mode, isWindows, opts>>

\* rmdirRecursive: the readdir callback, which issues the lstat of every entry.
rmdirRecursive_readdir(d) ==
  /\ mode = "async" /\ node[d].phase = "readdir"
  /\ \E r \in FsOutcomes(d, StatFaults) :
     \E es \in Perms({c \in Children(d) : exists[c]}) :
       /\ env' = Charge(r)
       /\ Commit(
            IF r # "ok"
            THEN LET W == [World EXCEPT !.node[d].readErr = r] IN
                 IF r = "ENOENT" /\ opts.force
                 THEN callback(W, d, "ok")
                 ELSE callback(W, d, r)
            ELSE LET W1 == [World EXCEPT !.node[d].entries = es,
                                         !.node[d].pending = Len(es)]
                 IN IF Len(es) = 0
                    THEN rmdirWithRetry(W1, d, 0)
                    ELSE [W1 EXCEPT !.node = [n \in Nodes |->
                            IF \E i \in 1..Len(es) : es[i] = n
                            THEN [W1.node[n] EXCEPT !.phase = "lstat"]
                            ELSE IF n = d
                                 THEN [W1.node[n] EXCEPT !.phase = "wait", !.hasError = FALSE]
                                 ELSE W1.node[n]]])
  /\ UNCHANGED <<calc, safe, exists, kind, mode, isWindows, opts>>

\* rmdirRecursive whose lstat callback does not look at hasError (mutant).
rmdirRecursive_lstat_NoLatchCheck(c) ==
  /\ mode = "async" /\ c # Root /\ node[c].phase = "lstat"
  /\ \E r \in FsOutcomes(c, StatFaults) :
       /\ env' = Charge(r)
       /\ LET d == Parent(c) IN
          Commit(
            IF r # "ok"
            THEN IF r = "ENOENT" /\ opts.force
                 THEN LET W1 == [World EXCEPT !.node[c].phase = "skipped",
                                              !.node[c].statErr = r,
                                              !.node[d].pending = @ - 1,
                                              !.node[d].settled = Append(@, c)]
                      IN IF W1.node[d].pending = 0
                         THEN rmdirWithRetry(W1, d, 0) ELSE W1
                 ELSE callback([World EXCEPT !.node[c].phase = "statfail",
                                             !.node[c].statErr = r,
                                             !.node[d].hasError = TRUE], d, r)
            ELSE IF kind[c] = "dir"
                 THEN rmdirRecursive(World, c)
                 ELSE unlinkWithRetry(World, c, 0))
  /\ UNCHANGED <<calc, safe, exists, kind, mode, isWindows, opts>>

\* rmdirRecursive that tolerates an entry found gone without taking it off
\* the pending count (mutant).
rmdirRecursive_lstat_NoCount(c) ==
  /\ mode = "async" /\ c # Root /\ node[c].phase = "lstat"
  /\ \E r \in FsOutcomes(c, StatFaults) :
       /\ env' = Charge(r)
       /\ LET d == Parent(c) IN
          Commit(
            IF node[d].hasError
            THEN [World EXCEPT !.node[c].phase = "dropped",
                               !.node[c].statErr = IF r = "ok" THEN "none" ELSE r]
            ELSE IF r # "ok"
                 THEN IF r = "ENOENT" /\ opts.force
                      THEN [World EXCEPT !.node[c].phase = "skipped",
                                         !.node[c].statErr = r]
                      ELSE callback([World EXCEPT !.node[c].phase = "statfail",
                                                  !.node[c].statErr = r,
                                                  !.node[d].hasError = TRUE], d, r)
                 ELSE IF kind[c] = "dir"
                      THEN rmdirRecursive(World, c)
                      ELSE unlinkWithRetry(World, c, 0))
  /\ UNCHANGED <<calc, safe, exists, kind, mode, isWindows, opts>>

\* rmdirRecursive that classifies an entry by fs.stat, which resolves a
\* symbolic link (mutant).
rmdirRecursive_lstat_Follows(c) ==
  /\ mode = "async" /\ c # Root /\ node[c].phase = "lstat"
  /\ \E r \in FollowOutcomes(c) :
       /\ env' = Charge(r)
       /\ LET d == Parent(c) IN
          Commit(
            IF node[d].hasError
            THEN [World EXCEPT !.node[c].phase = "dropped",
                               !.node[c].statErr = IF r = "ok" THEN "none" ELSE r]
            ELSE IF r # "ok"
                 THEN IF r = "ENOENT" /\ opts.force
                      THEN LET W1 == [World EXCEPT !.node[c].phase = "skipped",
                                                   !.node[c].statErr = r,
                                                   !.node[d].pending = @ - 1,
                                                   !.node[d].settled = Append(@, c)]
                           IN IF W1.node[d].pending = 0
                              THEN rmdirWithRetry(W1, d, 0) ELSE W1
                      ELSE callback([World EXCEPT !.node[c].phase = "statfail",
                                                  !.node[c].statErr = r,
                                                  !.node[d].hasError = TRUE], d, r)
                 ELSE IF kind[Follow(c)] = "dir"
                      THEN rmdirRecursive(World, c)
                      ELSE unlinkWithRetry(World, c, 0))
  /\ UNCHANGED <<calc, safe, exists, kind, mode, isWindows, opts>>

\* rmdirRecursive in which force tolerates every error of the lstat of an
\* entry (mutant).
rmdirRecursive_lstat_ForceAll(c) ==
  /\ mode = "async" /\ c # Root /\ node[c].phase = "lstat"
  /\ \E r \in FsOutcomes(c, StatFaults) :
       /\ env' = Charge(r)
       /\ LET d == Parent(c) IN
          Commit(
            IF node[d].hasError
            THEN [World EXCEPT !.node[c].phase = "dropped",
                               !.node[c].statErr = IF r = "ok" THEN "none" ELSE r]
            ELSE IF r # "ok"
                 THEN IF opts.force
                      THEN LET W1 == [World EXCEPT !.node[c].phase = "skipped",
                                                   !.node[c].statErr = r,
                                                   !.node[d].pending = @ - 1,
                                                   !.node[d].settled = Append(@, c)]
                           IN IF W1.node[d].pending = 0
                              THEN rmdirWithRetry(W1, d, 0) ELSE W1
                      ELSE callback([World EXCEPT !.node[c].phase = "statfail",
                                                  !.node[c].statErr = r,
                                                  !.node[d].hasError = TRUE], d, r)
                 ELSE IF kind[c] = "dir"
                      THEN rmdirRecursive(World, c)
                      ELSE unlinkWithRetry(World, c, 0))
  /\ UNCHANGED <<calc, safe, exists, kind, mode, isWindows, opts>>

\* rmdirRecursive: the lstat callback of the entry c.
rmdirRecursive_lstat(c) ==
  /\ mode = "async" /\ c # Root /\ node[c].phase = "lstat"
  /\ \E r \in FsOutcomes(c, StatFaults) :
       /\ env' = Charge(r)
       /\ LET d == Parent(c) IN
          Commit(
            IF node[d].hasError
            THEN [World EXCEPT !.node[c].phase = "dropped",
                               !.node[c].statErr = IF r = "ok" THEN "none" ELSE r]
            ELSE IF r # "ok"
                 THEN IF r = "ENOENT" /\ opts.force
                      THEN LET W1 == [World EXCEPT !.node[c].phase = "skipped",
                                                   !.node[c].statErr = r,
                                                   !.node[d].pending = @ - 1,
                                                   !.node[d].settled = Append(@, c)]
                           IN IF W1.node[d].pending = 0
                              THEN rmdirWithRetry(W1, d, 0) ELSE W1
                      ELSE callback([World EXCEPT !.node[c].phase = "statfail",
                                                  !.node[c].statErr = r,
                                                  !.node[d].hasError = TRUE], d, r)
                 ELSE IF kind[c] = "dir"
                      THEN rmdirRecursive(World, c)
                      ELSE unlinkWithRetry(World, c, 0))
  /\ UNCHANGED <<calc, safe, exists, kind, mode, isWindows, opts>>

\* unlinkWithRetry: the fs.unlink callback.
unlinkWithRetry_cb(n) ==
  /\ mode = "async" /\ node[n].phase = "unlink"
  /\ \E r \in FsOutcomes(n, RemoveFaults) :
       /\ env'    = ChargeRemove(r)
       /\ exists' = Removed(n, r)
       /\ LET W == [World EXCEPT !.node = Logged(node, n, r)] IN
          Commit(
            IF r = "ok" THEN callback(W, n, "ok")
            ELSE IF r = "ENOENT"
                 THEN unlinkWithRetry_ENOENT(W, n, r)
                 ELSE IF shouldFixEPERM(r)
                      THEN fixWinEPERM(W, n, r)
                      ELSE retryOrFail(W, n, node[n].attempt, r))
  /\ UNCHANGED <<calc, safe, kind, mode, isWindows, opts>>

\* rmdirWithRetry: the fs.rmdir callback.
rmdirWithRetry_cb(n) ==
  /\ mode = "async" /\ node[n].phase = "rmdir"
  /\ \E r \in RmdirOutcomes(n) :
       /\ env'    = ChargeRemove(r)
       /\ exists' = Removed(n, r)
       /\ LET W == [World EXCEPT !.node = Logged(node, n, r)] IN
          Commit(
            IF r = "ok" THEN callback(W, n, "ok")
            ELSE IF r = "ENOENT"
                 THEN rmdirWithRetry_ENOENT(W, n, r)
                 ELSE retryOrFail(W, n, node[n].attempt, r))
  /\ UNCHANGED <<calc, safe, kind, mode, isWindows, opts>>

\* retryOrFail whose timer starts the entry over, from its stat (mutant).
retryOrFail_timer_Revalidate(n) ==
  /\ mode = "async" /\ node[n].phase = "timer"
  /\ Commit([World EXCEPT !.node[n].phase = "lstat",
                          !.node[n].attempt = @ + 1])
  /\ UNCHANGED <<calc, safe, exists, kind, mode, isWindows, opts, env>>

\* retryOrFail: the setTimeout callback, which calls retryFn with attempt + 1.
retryOrFail_timer(n) ==
  /\ mode = "async" /\ node[n].phase = "timer"
  /\ Commit(IF node[n].fn = "rmdir"
            THEN rmdirWithRetry(World, n, node[n].attempt + 1)
            ELSE unlinkWithRetry(World, n, node[n].attempt + 1))
  /\ UNCHANGED <<calc, safe, exists, kind, mode, isWindows, opts, env>>

\* fixWinEPERM that hands on the error of fs.chmod (mutant).
fixWinEPERM_chmod_OwnError(n) ==
  /\ mode = "async" /\ node[n].phase = "chmod"
  /\ \E r \in FollowOutcomes(n) :
       /\ env' = [env EXCEPT !.faults    = IF Injected(r) THEN @ + 1 ELSE @,
                             !.mutations = IF r = "ok" THEN @ + 1 ELSE @,
                             !.modded    = IF r = "ok" THEN @ \cup {Follow(n)} ELSE @]
       /\ LET W == [World EXCEPT !.node[n].fixStep = "chmod"] IN
          Commit(
            IF r # "ok"
            THEN retryOrFail([W EXCEPT !.node[n].fixErr = StepError(r)],
                             n, node[n].attempt, node[n].err)
            ELSE [W EXCEPT !.node[n].phase = "stat"])
  /\ UNCHANGED <<calc, safe, exists, kind, mode, isWindows, opts>>

\* fixWinEPERM that starts over when fs.chmod fails (mutant).
fixWinEPERM_chmod_Again(n) ==
  /\ mode = "async" /\ node[n].phase = "chmod"
  /\ \E r \in FollowOutcomes(n) :
       /\ env' = [env EXCEPT !.faults    = IF Injected(r) THEN @ + 1 ELSE @,
                             !.mutations = IF r = "ok" THEN @ + 1 ELSE @,
                             !.modded    = IF r = "ok" THEN @ \cup {Follow(n)} ELSE @]
       /\ LET W == [World EXCEPT !.node[n].fixStep = "chmod"] IN
          Commit(
            IF r # "ok"
            THEN fixWinEPERM(W, n, node[n].err)
            ELSE [W EXCEPT !.node[n].phase = "stat"])
  /\ UNCHANGED <<calc, safe, exists, kind, mode, isWindows, opts>>

\* fixWinEPERM: the fs.chmod callback.
fixWinEPERM_chmod(n) ==
  /\ mode = "async" /\ node[n].phase = "chmod"
  /\ \E r \in FollowOutcomes(n) :
       /\ env' = [env EXCEPT !.faults    = IF Injected(r) THEN @ + 1 ELSE @,
                             !.mutations = IF r = "ok" THEN @ + 1 ELSE @,
                             !.modded    = IF r = "ok" THEN @ \cup {Follow(n)} ELSE @]
       /\ LET W == [World EXCEPT !.node[n].fixStep = "chmod"] IN
          Commit(
            IF r # "ok"
            THEN retryOrFail([W EXCEPT !.node[n].fixErr = OriginalError(node[n].err)],
                             n, node[n].attempt, node[n].err)
            ELSE [W EXCEPT !.node[n].phase = "stat"])
  /\ UNCHANGED <<calc, safe, exists, kind, mode, isWindows, opts>>

\* fixWinEPERM: the fs.stat callback.
fixWinEPERM_stat(n) ==
  /\ mode = "async" /\ node[n].phase = "stat"
  /\ \E r \in FollowOutcomes(n) :
       /\ env' = [Charge(r) EXCEPT !.through = IF r = "ok" THEN @ \cup Reached(n) ELSE @]
       /\ LET W == [World EXCEPT !.node[n].fixStep = "stat"] IN
          Commit(
            IF r # "ok"
            THEN retryOrFail([W EXCEPT !.node[n].fixErr = OriginalError(node[n].err)],
                             n, node[n].attempt, node[n].err)
            ELSE [W EXCEPT !.node[n].phase = "fixrm",
                           !.node[n].fixCalls = @ + 1])
  /\ UNCHANGED <<calc, safe, exists, kind, mode, isWindows, opts>>

\* unlinkWithRetry that takes the fixErr of a failed repair, not the error of
\* the attempt, to retryOrFail (mutant).
fixWinEPERM_rm_FixErr(n) ==
  /\ mode = "async" /\ node[n].phase = "fixrm"
  /\ \E r \in FixRmOutcomes(n) :
       /\ env'    = ChargeRemove(r)
       /\ exists' = Removed(n, r)
       /\ LET W == [World EXCEPT !.node = LoggedFix(node, n, r),
                                 !.node[n].fixStep = "rm",
                                 !.node[n].fixErr =
                                    IF r = "ok" THEN Repaired ELSE StepError(r)] IN
          Commit(
            IF r = "ok"
            THEN callback(W, n, "ok")
            ELSE retryOrFail(W, n, node[n].attempt, r))
  /\ UNCHANGED <<calc, safe, kind, mode, isWindows, opts>>

\* fixWinEPERM: the callback of its own fs.rmdir / fs.unlink; its error is the
\* fixErr of unlinkWithRetry, which retries with the error of the attempt.
fixWinEPERM_rm(n) ==
  /\ mode = "async" /\ node[n].phase = "fixrm"
  /\ \E r \in FixRmOutcomes(n) :
       /\ env'    = ChargeRemove(r)
       /\ exists' = Removed(n, r)
       /\ LET W == [World EXCEPT !.node = LoggedFix(node, n, r),
                                 !.node[n].fixStep = "rm",
                                 !.node[n].fixErr =
                                    IF r = "ok" THEN Repaired ELSE StepError(r)] IN
          Commit(
            IF r = "ok"
            THEN callback(W, n, "ok")
            ELSE retryOrFail(W, n, node[n].attempt, node[n].err))
  /\ UNCHANGED <<calc, safe, kind, mode, isWindows, opts>>

\* =========================================================================
\* Blocking engine: fallback/rmSync.ts
\* =========================================================================

\* rmdirRecursiveSync whose rmdirSync goes on from the attempt the last entry
\* had reached (mutant).
syncNextEntry_CarryAttempt(W, d, c) ==
  LET i  == W.node[d].idx + 1
      W1 == [W EXCEPT !.node[d].settled = Append(@, c)]
  IN IF i > Len(W1.node[d].entries)
     THEN [W1 EXCEPT !.node[d].phase = "rmdir", !.node[d].fn = "rmdir",
                     !.node[d].attempt = W.node[c].attempt]
     ELSE [W1 EXCEPT !.node[d].idx = i,
                     !.node[W1.node[d].entries[i]].phase = "lstat"]

\* rmdirRecursiveSync: the entry c of d is dealt with; the for loop goes on to
\* its next entry, or to the rmdirSync after the loop.
syncNextEntry(W, d, c) ==
  LET i  == W.node[d].idx + 1
      W1 == [W EXCEPT !.node[d].settled = Append(@, c)]
  IN IF i > Len(W1.node[d].entries)
     THEN [W1 EXCEPT !.node[d].phase = "rmdir", !.node[d].fn = "rmdir",
                     !.node[d].attempt = 0]
     ELSE [W1 EXCEPT !.node[d].idx = i,
                     !.node[W1.node[d].entries[i]].phase = "lstat"]

\* The operation on n returns normally: the request returns when n is the
\* request path, the enclosing rmdirRecursiveSync continues otherwise.
syncReturn(W, n) ==
  LET W1 == [W EXCEPT !.node[n].phase = "done", !.node[n].res = "ok",
                      !.node[n].cbs = @ + 1]
  IN IF n = Root
     THEN [W1 EXCEPT !.top.cbCount = @ + 1, !.top.result = "ok"]
     ELSE syncNextEntry(W1, Parent(n), n)

RECURSIVE Ancestors(_)
Ancestors(n) == IF n = Root THEN {} ELSE {Parent(n)} \cup Ancestors(Parent(n))

\* A walk that catches what the removal of an entry throws and goes on to its
\* next entry (mutant).
syncThrow_Swallow(W, n, e) ==
  IF n = Root
  THEN [W EXCEPT !.node[n].phase = "done", !.node[n].res = e, !.node[n].cbs = @ + 1,
                 !.top.cbCount = @ + 1, !.top.result = e]
  ELSE syncNextEntry([W EXCEPT !.node[n].phase = "done", !.node[n].res = e,
                               !.node[n].cbs = @ + 1], Parent(n), n)

\* The operation on n throws e: no frame of the engine catches it, so every
\* enclosing walk ends with it and the request throws it.
syncThrow(W, n, e) ==
  [W EXCEPT !.node = [x \in Nodes |->
                        IF x = n \/ x \in Ancestors(n)
                        THEN [W.node[x] EXCEPT !.phase = "done", !.res = e,
                                               !.cbs = @ + 1]
                        ELSE W.node[x]],
            !.top.cbCount = @ + 1,
            !.top.result  = e]

\* A retry check that does not look at the error code (mutant).
syncRetryOrThrow_AnyCode(W, n, a, e) ==
  IF a >= opts.maxRetries
  THEN syncThrow(W, n, e)
  ELSE [W EXCEPT !.node[n].phase = "timer", !.node[n].err = e,
                 !.node[n].waits = @ + 1,
                 !.node[n].delays = Append(@, opts.retryDelay)]

\* The tail of the catch block of unlinkSync / rmdirSync: throw, or busyWait.
syncRetryOrThrow(W, n, a, e) ==
  IF e \notin RETRYABLE_CODES_rmSync \/ a >= opts.maxRetries
  THEN syncThrow(W, n, e)
  ELSE [W EXCEPT !.node[n].phase = "timer", !.node[n].err = e,
                 !.node[n].waits = @ + 1,
                 !.node[n].delays = Append(@, opts.retryDelay)]

Running == mode = "sync" /\ top.started /\ top.cbCount = 0

\* fallbackRmSync: resolve the options; lstatSync comes next.
fallbackRmSync ==
  /\ mode = "sync" /\ ~top.started
  /\ top'  = [top EXCEPT !.started = TRUE]
  /\ node' = [node EXCEPT ![Root].phase = "lstat"]
  /\ env'  = [env EXCEPT !.absentAtStart = ~exists[Root],
                         !.exists0 = {x \in AllPaths : exists[x]}]
  /\ UNCHANGED <<calc, safe, exists, kind, mode, isWindows, opts>>

\* fallbackRmSync that returns on ENOENT whatever force is (mutant).
fallbackRmSync_lstat_AlwaysForce ==
  /\ Running /\ node[Root].phase = "lstat"
  /\ \E r \in FsOutcomes(Root, StatFaults) :
       /\ env' = Charge(r)
       /\ Commit(
            IF r # "ok"
            THEN LET W == [World EXCEPT !.node[Root].statErr = r] IN
                 IF r = "ENOENT"
                 THEN syncReturn(W, Root)
                 ELSE syncThrow(W, Root, r)
            ELSE IF kind[Root] = "dir"
                 THEN IF ~opts.recursive
                      THEN syncThrow(World, Root, "EISDIR")
                      ELSE [World EXCEPT !.node[Root].phase = "readdir"]
                 ELSE [World EXCEPT !.node[Root].phase = "unlink",
                                    !.node[Root].fn = "unlink",
                                    !.node[Root].attempt = 0])
  /\ UNCHANGED <<calc, safe, exists, kind, mode, isWindows, opts>>

\* fallbackRmSync: lstatSync of the request path and the choice it makes.
fallbackRmSync_lstat ==
  /\ Running /\ node[Root].phase = "lstat"
  /\ \E r \in FsOutcomes(Root, StatFaults) :
       /\ env' = Charge(r)
       /\ Commit(
            IF r # "ok"
            THEN LET W == [World EXCEPT !.node[Root].statErr = r] IN
                 IF r = "ENOENT"
                 THEN IF opts.force THEN syncReturn(W, Root) ELSE syncThrow(W, Root, r)
                 ELSE syncThrow(W, Root, r)
            ELSE IF kind[Root] = "dir"
                 THEN IF ~opts.recursive
                      THEN syncThrow(World, Root, "EISDIR")
                      ELSE [World EXCEPT !.node[Root].phase = "readdir"]
                 ELSE [World EXCEPT !.node[Root].phase = "unlink",
                                    !.node[Root].fn = "unlink",
                                    !.node[Root].attempt = 0])
  /\ UNCHANGED <<calc, safe, exists, kind, mode, isWindows, opts>>

\* rmdirRecursiveSync in which force tolerates every readdirSync error
\* (mutant).
rmdirRecursiveSync_readdir_ForceAll(d) ==
  /\ Running /\ node[d].phase = "readdir"
  /\ \E r \in FsOutcomes(d, StatFaults) :
     \E es \in Perms({c \in Children(d) : exists[c]}) :
       /\ env' = Charge(r)
       /\ Commit(
            IF r # "ok"
            THEN LET W == [World EXCEPT !.node[d].readErr = r] IN
                 IF opts.force
                 THEN syncReturn(W, d)
                 ELSE syncThrow(W, d, r)
            ELSE IF Len(es) = 0
                 THEN [World EXCEPT !.node[d].entries = es,
                                    !.node[d].phase = "rmdir",
                                    !.node[d].fn = "rmdir",
                                    !.node[d].attempt = 0]
                 ELSE [World EXCEPT !.node[d].entries = es,
                                    !.node[d].phase = "wait",
                                    !.node[d].idx = 1,
                                    !.node[es[1]].phase = "lstat"])
  /\ UNCHANGED <<calc, safe, exists, kind, mode, isWindows, opts>>

\* rmdirRecursiveSync that starts on every entry at once, as rmdirRecursive
\* does (mutant).
rmdirRecursiveSync_readdir_FanOut(d) ==
  /\ Running /\ node[d].phase = "readdir"
  /\ \E r \in FsOutcomes(d, StatFaults) :
     \E es \in Perms({c \in Children(d) : exists[c]}) :
       /\ env' = Charge(r)
       /\ Commit(
            IF r # "ok"
            THEN LET W == [World EXCEPT !.node[d].readErr = r] IN
                 IF r = "ENOENT" /\ opts.force
                 THEN syncReturn(W, d)
                 ELSE syncThrow(W, d, r)
            ELSE IF Len(es) = 0
                 THEN [World EXCEPT !.node[d].entries = es,
                                    !.node[d].phase = "rmdir",
                                    !.node[d].fn = "rmdir",
                                    !.node[d].attempt = 0]
                 ELSE [World EXCEPT !.node = [n \in Nodes |->
                         IF \E i \in 1..Len(es) : es[i] = n
                         THEN [node[n] EXCEPT !.phase = "lstat"]
                         ELSE IF n = d
                              THEN [node[n] EXCEPT !.entries = es, !.phase = "wait",
                                                   !.idx = 1]
                              ELSE node[n]]])
  /\ UNCHANGED <<calc, safe, exists, kind, mode, isWindows, opts>>

\* rmdirRecursiveSync: readdirSync, up to the head of the for loop.
rmdirRecursiveSync_readdir(d) ==
  /\ Running /\ node[d].phase = "readdir"
  /\ \E r \in FsOutcomes(d, StatFaults) :
     \E es \in Perms({c \in Children(d) : exists[c]}) :
       /\ env' = Charge(r)
       /\ Commit(
            IF r # "ok"
            THEN LET W == [World EXCEPT !.node[d].readErr = r] IN
                 IF r = "ENOENT" /\ opts.force
                 THEN syncReturn(W, d)
                 ELSE syncThrow(W, d, r)
            ELSE IF Len(es) = 0
                 THEN [World EXCEPT !.node[d].entries = es,
                                    !.node[d].phase = "rmdir",
                                    !.node[d].fn = "rmdir",
                                    !.node[d].attempt = 0]
                 ELSE [World EXCEPT !.node[d].entries = es,
                                    !.node[d].phase = "wait",
                                    !.node[d].idx = 1,
                                    !.node[es[1]].phase = "lstat"])
  /\ UNCHANGED <<calc, safe, exists, kind, mode, isWindows, opts>>

\* rmdirRecursiveSync that throws the ENOENT of the lstatSync of an entry
\* whatever force is (mutant).
rmdirRecursiveSync_lstat_NoTolerance(c) ==
  /\ Running /\ c # Root /\ node[c].phase = "lstat"
  /\ \E r \in FsOutcomes(c, StatFaults) :
       /\ env' = Charge(r)
       /\ Commit(
            IF r # "ok"
            THEN syncThrow([World EXCEPT !.node[c].phase = "statfail",
                                         !.node[c].statErr = r], Parent(c), r)
            ELSE IF kind[c] = "dir"
                 THEN [World EXCEPT !.node[c].phase = "readdir"]
                 ELSE [World EXCEPT !.node[c].phase = "unlink",
                                    !.node[c].fn = "unlink",
                                    !.node[c].attempt = 0])
  /\ UNCHANGED <<calc, safe, exists, kind, mode, isWindows, opts>>

\* rmdirRecursiveSync: one iteration of the for loop, up to the call it makes.
rmdirRecursiveSync_lstat(c) ==
  /\ Running /\ c # Root /\ node[c].phase = "lstat"
  /\ \E r \in FsOutcomes(c, StatFaults) :
       /\ env' = Charge(r)
       /\ Commit(
            IF r # "ok"
            THEN IF r = "ENOENT" /\ opts.force
                 THEN syncNextEntry([World EXCEPT !.node[c].phase = "skipped",
                                                  !.node[c].statErr = r], Parent(c), c)
                 ELSE syncThrow([World EXCEPT !.node[c].phase = "statfail",
                                              !.node[c].statErr = r], Parent(c), r)
            ELSE IF kind[c] = "dir"
                 THEN [World EXCEPT !.node[c].phase = "readdir"]
                 ELSE [World EXCEPT !.node[c].phase = "unlink",
                                    !.node[c].fn = "unlink",
                                    !.node[c].attempt = 0])
  /\ UNCHANGED <<calc, safe, exists, kind, mode, isWindows, opts>>

\* unlinkSync: one iteration of the retry loop.
unlinkSync(n) ==
  /\ Running /\ node[n].phase = "unlink"
  /\ \E r \in FsOutcomes(n, RemoveFaults) :
       /\ env'    = ChargeRemove(r)
       /\ exists' = Removed(n, r)
       /\ LET W == [World EXCEPT !.node = Logged(node, n, r),
                                 !.node[n].calls = @ + 1] IN
          Commit(
            IF r = "ok" THEN syncReturn(W, n)
            ELSE IF r = "ENOENT"
                 THEN IF opts.force THEN syncReturn(W, n) ELSE syncThrow(W, n, r)
                 ELSE IF shouldFixEPERM(r)
                      THEN [W EXCEPT !.node[n].phase = "chmod", !.node[n].err = r,
                                     !.node[n].fixes = @ + 1,
                                     !.node[n].fixAt = W.node[n].attempt]
                      ELSE syncRetryOrThrow(W, n, node[n].attempt, r))
  /\ UNCHANGED <<calc, safe, kind, mode, isWindows, opts>>

\* rmdirSync that throws ENOENT whatever force is (mutant).
rmdirSync_NoForce(n) ==
  /\ Running /\ node[n].phase = "rmdir"
  /\ \E r \in RmdirOutcomes(n) :
       /\ env'    = ChargeRemove(r)
       /\ exists' = Removed(n, r)
       /\ LET W == [World EXCEPT !.node = Logged(node, n, r),
                                 !.node[n].calls = @ + 1] IN
          Commit(
            IF r = "ok" THEN syncReturn(W, n)
            ELSE IF r = "ENOENT"
                 THEN syncThrow(W, n, r)
                 ELSE syncRetryOrThrow(W, n, node[n].attempt, r))
  /\ UNCHANGED <<calc, safe, kind, mode, isWindows, opts>>

\* rmdirSync: one iteration of the retry loop.
rmdirSync(n) ==
  /\ Running /\ node[n].phase = "rmdir"
  /\ \E r \in RmdirOutcomes(n) :
       /\ env'    = ChargeRemove(r)
       /\ exists' = Removed(n, r)
       /\ LET W == [World EXCEPT !.node = Logged(node, n, r),
                                 !.node[n].calls = @ + 1] IN
          Commit(
            IF r = "ok" THEN syncReturn(W, n)
            ELSE IF r = "ENOENT"
                 THEN IF opts.force THEN syncReturn(W, n) ELSE syncThrow(W, n, r)
                 ELSE syncRetryOrThrow(W, n, node[n].attempt, r))
  /\ UNCHANGED <<calc, safe, kind, mode, isWindows, opts>>

\* busyWait returns: the for loop increments attempt and tries again.
busyWait(n) ==
  /\ Running /\ node[n].phase = "timer"
  /\ node' = [node EXCEPT ![n].phase = node[n].fn, ![n].attempt = @ + 1]
  /\ UNCHANGED <<calc, safe, exists, kind, mode, isWindows, opts, top, env>>

\* fixWinEPERMSync: chmodSync; its failure throws the original error, which
\* unlinkSync catches and takes to its retry check.
fixWinEPERMSync_chmod(n) ==
  /\ Running /\ node[n].phase = "chmod"
  /\ \E r \in FollowOutcomes(n) :
       /\ env' = [env EXCEPT !.faults    = IF Injected(r) THEN @ + 1 ELSE @,
                             !.mutations = IF r = "ok" THEN @ + 1 ELSE @,
                             !.modded    = IF r = "ok" THEN @ \cup {Follow(n)} ELSE @]
       /\ LET W == [World EXCEPT !.node[n].fixStep = "chmod"] IN
          Commit(
            IF r # "ok"
            THEN syncRetryOrThrow([W EXCEPT !.node[n].fixErr = OriginalError(node[n].err)],
                                  n, node[n].attempt, node[n].err)
            ELSE [W EXCEPT !.node[n].phase = "stat"])
  /\ UNCHANGED <<calc, safe, exists, kind, mode, isWindows, opts>>

\* fixWinEPERMSync: statSync.
fixWinEPERMSync_stat(n) ==
  /\ Running /\ node[n].phase = "stat"
  /\ \E r \in FollowOutcomes(n) :
       /\ env' = [Charge(r) EXCEPT !.through = IF r = "ok" THEN @ \cup Reached(n) ELSE @]
       /\ LET W == [World EXCEPT !.node[n].fixStep = "stat"] IN
          Commit(
            IF r # "ok"
            THEN syncRetryOrThrow([W EXCEPT !.node[n].fixErr = OriginalError(node[n].err)],
                                  n, node[n].attempt, node[n].err)
            ELSE [W EXCEPT !.node[n].phase = "fixrm"])
  /\ UNCHANGED <<calc, safe, exists, kind, mode, isWindows, opts>>

\* fixWinEPERMSync: its own rmdirSync / unlinkSync; what it throws is caught
\* by unlinkSync as _fixErr and dropped.
fixWinEPERMSync_rm(n) ==
  /\ Running /\ node[n].phase = "fixrm"
  /\ \E r \in FixRmOutcomes(n) :
       /\ env'    = ChargeRemove(r)
       /\ exists' = Removed(n, r)
       /\ LET W == [World EXCEPT !.node = LoggedFix(node, n, r),
                                 !.node[n].fixCalls = @ + 1,
                                 !.node[n].fixStep = "rm",
                                 !.node[n].fixErr =
                                    IF r = "ok" THEN Repaired ELSE StepError(r)] IN
          Commit(
            IF r = "ok"
            THEN syncReturn(W, n)
            ELSE syncRetryOrThrow(W, n, node[n].attempt, node[n].err))
  /\ UNCHANGED <<calc, safe, kind, mode, isWindows, opts>>

SyncNext ==
  \/ fallbackRmSync
  \/ fallbackRmSync_lstat
  \/ \E n \in Nodes : rmdirRecursiveSync_readdir(n)
  \/ \E n \in Nodes : rmdirRecursiveSync_lstat(n)
  \/ \E n \in Nodes : unlinkSync(n)
  \/ \E n \in Nodes : rmdirSync(n)
  \/ \E n \in Nodes : busyWait(n)
  \/ \E n \in Nodes : fixWinEPERMSync_chmod(n)
  \/ \E n \in Nodes : fixWinEPERMSync_stat(n)
  \/ \E n \in Nodes : fixWinEPERMSync_rm(n)

\* Another process removes the entry n (with everything under it) while the
\* request runs.
ExternalRemove(n) ==
  /\ top.started /\ top.cbCount = 0
  /\ exists[n] /\ env.faults + env.externals < env.budget
  /\ exists' = [x \in AllPaths |-> exists[x] /\ x # n /\ x \notin Descendants(n)]
  /\ env'    = [env EXCEPT !.externals = @ + 1, !.disturbed = TRUE]
  /\ UNCHANGED <<calc, safe, kind, mode, isWindows, opts, node, top>>

\* Nothing of the request is in flight any more.
Quiescent ==
  \A n \in Nodes : node[n].phase \in {"idle", "done", "dropped", "skipped", "statfail"}

\* The caller, having got the outcome of a request, repeats it on the same
\* path, with the same options or with force set.
NewRequest ==
  /\ top.cbCount > 0 /\ Quiescent
  /\ env.reqs < MaxRequests
  /\ opts' \in {opts, [opts EXCEPT !.force = TRUE]}
  /\ node' = [n \in Nodes |-> NodeInit]
  /\ top'  = TopInit
  /\ env'  = [env EXCEPT !.reqs = @ + 1, !.prior = top.result,
                         !.priorMut = env.mutations, !.mutations = 0,
                         !.absentAtStart = FALSE, !.disturbed = FALSE,
                         !.exists0 = {}, !.through = {}, !.modded = {}]
  /\ UNCHANGED <<calc, safe, exists, kind, mode, isWindows>>

AsyncNext ==
  \/ fallbackRm
  \/ fallbackRm_lstat
  \/ \E n \in Nodes : rmdirRecursive_readdir(n)
  \/ \E n \in Nodes : rmdirRecursive_lstat(n)
  \/ \E n \in Nodes : unlinkWithRetry_cb(n)
  \/ \E n \in Nodes : rmdirWithRetry_cb(n)
  \/ \E n \in Nodes : retryOrFail_timer(n)
  \/ \E n \in Nodes : fixWinEPERM_chmod(n)
  \/ \E n \in Nodes : fixWinEPERM_stat(n)
  \/ \E n \in Nodes : fixWinEPERM_rm(n)

Next ==
  \/ AsyncNext
  \/ SyncNext
  \/ \E n \in Nodes : ExternalRemove(n)
  \/ NewRequest

Spec == Init /\ [][Next]_vars

SpecDelay == DelayInit /\ [][Next]_vars

SpecRepair == RepairInit /\ [][Next]_vars

\* =========================================================================
\* retry.ts: the classifier and the backoff delay of the safe variants
\* =========================================================================

\* An error value: whether it is an instance of Error, and its code property
\* ("undefined" when it has none).
ErrorCodes ==
  {"EBUSY", "EMFILE", "ENFILE", "ENOTEMPTY", "EPERM",
   "ENOENT", "EISDIR", "EACCES", "ENOTDIR", "EEXIST", "", "undefined"}
ErrorValues == [isError : BOOLEAN, code : ErrorCodes]

\* isRetryableError
isRetryableError(err) ==
  IF ~err.isError THEN FALSE
  ELSE err.code # "undefined" /\ err.code \in RETRYABLE_CODES_retry

\* err.code || ''
CodeOrEmpty(err) == IF err.code \in {"undefined", ""} THEN "" ELSE err.code

\* The test of retryOrFail (fallback/rm.ts), negated: the error is retryable.
retryOrFail_retryable(err) == CodeOrEmpty(err) \in RETRYABLE_CODES

\* The test of unlinkSync / rmdirSync (fallback/rmSync.ts), negated.
unlinkSync_retryable(err) == CodeOrEmpty(err) \in RETRYABLE_CODES_rmSync

\* A binary64 number m * 2^(e-52), its 53-bit significand m held in three
\* limbs: hi (17 bits), mid and lo (18 bits each).
Limb == 262144

RECURSIVE Pow2(_)
Pow2(k) == IF k = 0 THEN 1 ELSE 2 * Pow2(k - 1)

RECURSIVE BitLen(_)
BitLen(x) == IF x = 0 THEN 0 ELSE 1 + BitLen(x \div 2)

\* BACKOFF_FACTOR ** attempt, with BACKOFF_FACTOR the binary64 nearest to 1.2.
BACKOFF_FACTOR_pow(attempt) ==
  CASE attempt = 0 -> [e |-> 0, hi |-> 65536,  mid |-> 0,      lo |-> 0]       \* 1.0
    [] attempt = 1 -> [e |-> 0, hi |-> 78643,  mid |-> 52428,  lo |-> 209715]  \* 1.2
    [] attempt = 2 -> [e |-> 0, hi |-> 94371,  mid |-> 220200, lo |-> 251658]  \* 1.44
    [] attempt = 3 -> [e |-> 0, hi |-> 113246, mid |-> 54525,  lo |-> 249560]  \* 1.7279999999999998
    [] attempt = 4 -> [e |-> 1, hi |-> 67947,  mid |-> 190001, lo |-> 254594]  \* 2.0736
    [] attempt = 5 -> [e |-> 1, hi |-> 81537,  mid |-> 70715,  lo |-> 253083]  \* 2.4883199999999994
    [] attempt = 6 -> [e |-> 1, hi |-> 97844,  mid |-> 189716, lo |-> 198842]  \* 2.9859839999999993
    [] attempt = 7 -> [e |-> 1, hi |-> 117413, mid |-> 175231, lo |-> 81324]   \* 3.583180799999999
    [] attempt = 8 -> [e |-> 2, hi |-> 70448,  mid |-> 52709,  lo |-> 258509]  \* 4.2998169599999985
    [] attempt = 9 -> [e |-> 2, hi |-> 84537,  mid |-> 220538, lo |-> 100496]  \* 5.1597803519999985
    [] OTHER       -> [e |-> 2, hi |-> 101445, mid |-> 107359, lo |-> 173023]  \* 6.191736422399997

\* getBackoffDelay: Math.floor(baseDelay * BACKOFF_FACTOR ** attempt), the
\* product rounded to 53 bits (to nearest, ties to even) before the floor.
getBackoffDelay(baseDelay, attempt) ==
  IF baseDelay = 0 THEN 0
  ELSE
    LET f    == BACKOFF_FACTOR_pow(attempt)
        \* the exact product, limb by limb
        p0   == baseDelay * f.lo
        t1   == baseDelay * f.mid + (p0 \div Limb)
        t2   == baseDelay * f.hi + (t1 \div Limb)
        q0   == p0 % Limb
        q1   == t1 % Limb
        \* the k low bits that do not fit in 53
        k    == BitLen(t2) - 17
        low  == q0 % Pow2(k)
        keep == q0 \div Pow2(k)
        up   == /\ k >= 1
                /\ \/ 2 * low > Pow2(k)
                   \/ 2 * low = Pow2(k) /\ keep % 2 = 1
        \* the rounding carries into the top limb
        c2   == up /\ keep + 1 = Pow2(18 - k) /\ q1 = Limb - 1
        top2 == IF c2 THEN t2 + 1 ELSE t2
    IN top2 \div Pow2(16 - f.e)

\* An options argument: `given` is whether the caller passed one at all, and
\* each property is the empty set when it is undefined (or null), the set of
\* its value otherwise.
OptionValues ==
  [given      : {TRUE},
   recursive  : {{}, {TRUE}, {FALSE}},
   force      : {{}, {TRUE}, {FALSE}},
   maxRetries : {{}} \cup {{k} : k \in 0..MaxRetriesOpt},
   retryDelay : {{}, {125}}]
  \cup {[given |-> FALSE, recursive |-> {}, force |-> {}, maxRetries |-> {},
          retryDelay |-> {}]}

\* process.env.OSTYPE
OSTYPES == {"undefined", "msys", "cygwin", "linux-gnu"}

\* options?.name ?? dflt
Nullish(options, name, dflt) ==
  IF ~options.given \/ options[name] = {} THEN dflt
  ELSE CHOOSE v \in options[name] : TRUE

\* isWindows of retry.ts: win32, or an OSTYPE of msys or cygwin.
retry_isWindows(OSTYPE) == isWindows \/ OSTYPE \in {"msys", "cygwin"}

\* SAFE_DEFAULTS that grants retries on no platform (mutant).
SAFE_DEFAULTS_NoRetries(OSTYPE) ==
  [recursive |-> TRUE, force |-> TRUE, maxRetries |-> 0, retryDelay |-> 100]

\* SAFE_DEFAULTS
SAFE_DEFAULTS(OSTYPE) ==
  [recursive  |-> TRUE,
   force      |-> TRUE,
   maxRetries |-> IF retry_isWindows(OSTYPE) THEN 10 ELSE 0,
   retryDelay |-> 100]

\* fallbackRm / fallbackRmSync: const opts
fallbackRm_opts(options) ==
  [recursive  |-> Nullish(options, "recursive", FALSE),
   force      |-> Nullish(options, "force", FALSE),
   maxRetries |-> Nullish(options, "maxRetries", 0),
   retryDelay |-> Nullish(options, "retryDelay", 100)]

fallbackRmSync_opts(options) ==
  [recursive  |-> Nullish(options, "recursive", FALSE),
   force      |-> Nullish(options, "force", FALSE),
   maxRetries |-> Nullish(options, "maxRetries", 0),
   retryDelay |-> Nullish(options, "retryDelay", 100)]

\* safeRmPromise / safeRmImpl / safeRmSync: const opts
safeRmPromise_opts(options, OSTYPE) ==
  [recursive  |-> Nullish(options, "recursive", SAFE_DEFAULTS(OSTYPE).recursive),
   force      |-> Nullish(options, "force", SAFE_DEFAULTS(OSTYPE).force),
   maxRetries |-> Nullish(options, "maxRetries", SAFE_DEFAULTS(OSTYPE).maxRetries),
   retryDelay |-> Nullish(options, "retryDelay", SAFE_DEFAULTS(OSTYPE).retryDelay)]

safeRmImpl_opts(options, OSTYPE) ==
  [recursive  |-> Nullish(options, "recursive", SAFE_DEFAULTS(OSTYPE).recursive),
   force      |-> Nullish(options, "force", SAFE_DEFAULTS(OSTYPE).force),
   maxRetries |-> Nullish(options, "maxRetries", SAFE_DEFAULTS(OSTYPE).maxRetries),
   retryDelay |-> Nullish(options, "retryDelay", SAFE_DEFAULTS(OSTYPE).retryDelay)]

safeRmSync_opts(options, OSTYPE) ==
  [recursive  |-> Nullish(options, "recursive", SAFE_DEFAULTS(OSTYPE).recursive),
   force      |-> Nullish(options, "force", SAFE_DEFAULTS(OSTYPE).force),
   maxRetries |-> Nullish(options, "maxRetries", SAFE_DEFAULTS(OSTYPE).maxRetries),
   retryDelay |-> Nullish(options, "retryDelay", SAFE_DEFAULTS(OSTYPE).retryDelay)]

\* retry.ts at rest: no engine runs.
RetryInit ==
  /\ exists = [n \in AllPaths |-> FALSE]
  /\ kind   = [n \in AllPaths |-> "file"]
  /\ mode = "async"
  /\ isWindows \in BOOLEAN
  /\ opts = [recursive |-> TRUE, force |-> TRUE, maxRetries |-> 0, retryDelay |-> 100]
  /\ node = [n \in Nodes |-> NodeInit]
  /\ top  = TopInit
  /\ env  = EnvInit
  /\ calc = CalcIdle
  /\ safe = SafeIdle

\* The retry loop of a safe variant asks for the delay of its first wait.
Call_getBackoffDelay ==
  /\ \E baseDelay \in 0..MaxDelay :
       calc' = [fn |-> "getBackoffDelay", baseDelay |-> baseDelay, attempt |-> 0,
                delay |-> getBackoffDelay(baseDelay, 0), prev |-> 0]
  /\ UNCHANGED <<exists, kind, mode, isWindows, opts, node, top, env, safe>>

\* ... and, the next attempt having failed, for the delay of the next wait.
Call_getBackoffDelay_next ==
  /\ calc.fn = "getBackoffDelay" /\ calc.attempt < MaxAttempt
  /\ calc' = [calc EXCEPT !.attempt = @ + 1,
                          !.delay   = getBackoffDelay(calc.baseDelay, calc.attempt + 1),
                          !.prev    = calc.delay]
  /\ UNCHANGED <<exists, kind, mode, isWindows, opts, node, top, env, safe>>

\* An error is classified, by retry.ts and by the tests the two fallback
\* engines make in line.
Call_isRetryableError ==
  /\ \E err \in ErrorValues :
       calc' = [fn |-> "isRetryableError", err |-> err,
                safe        |-> isRetryableError(err),
                strictAsync |-> retryOrFail_retryable(err),
                strictSync  |-> unlinkSync_retryable(err)]
  /\ UNCHANGED <<exists, kind, mode, isWindows, opts, node, top, env, safe>>

\* An entry point resolves the options it was called with: the two fallback
\* engines (strict profile) and the three forms of the safe variants.
Call_opts ==
  /\ \E options \in OptionValues, OSTYPE \in OSTYPES :
       calc' = [fn |-> "opts", options |-> options, OSTYPE |-> OSTYPE,
                fallbackRm     |-> fallbackRm_opts(options),
                fallbackRmSync |-> fallbackRmSync_opts(options),
                safeRmPromise  |-> safeRmPromise_opts(options, OSTYPE),
                safeRmImpl     |-> safeRmImpl_opts(options, OSTYPE),
                safeRmSync     |-> safeRmSync_opts(options, OSTYPE)]
  /\ UNCHANGED <<exists, kind, mode, isWindows, opts, node, top, env, safe>>

RetryNext ==
  \/ Call_getBackoffDelay
  \/ Call_getBackoffDelay_next
  \/ Call_isRetryableError
  \/ Call_opts

SpecRetry == RetryInit /\ [][RetryNext]_vars

\* =========================================================================
\* The safe variants: safeRm.ts (awaitable and callback form), safeRmSync.ts
\* =========================================================================
\* A safe variant wraps single rm attempts (rmOnce: the native fs.rm, or
\* fallbackRm, called with maxRetries 0) in a retry loop of its own.  What the
\* attempts and the repairs answer is a script fixed when the call is made;
\* the three forms are called one after the other on the same script.

\* The answers of the first MaxScript attempts are free; later attempts
\* answer as the last of them.
MaxScript == 2

SafeForms == {"callback", "promise", "sync"}

\* The forms called before form f.
Before(f) ==
  CASE f = "callback" -> {}
    [] f = "promise"  -> {"callback"}
    [] OTHER          -> {"callback", "promise"}

\* What one attempt answers (rm), and what fixWinEPERM answers when it is run
\* on the path after it (fix).
Responses ==
  [rm : {"ok", "ENOENT", "EBUSY", "EACCES"}, fix : {"none"}]
  \cup [rm : {"EPERM"}, fix : {"ok", "EPERM"}]

\* One call of a safe variant.
CallInit ==
  [ phase   |-> "idle",     \* idle | rmOnce | direct | fix | sleep | done
    attempt |-> 0,          \* the attempt argument / loop counter
    err     |-> "none",     \* the error of the attempt
    result  |-> "none",     \* none | ok | the error delivered
    signals |-> 0,          \* times the outcome was delivered
    tries   |-> 0,          \* single rm attempts made
    inner   |-> << >>,      \* the maxRetries each attempt was called with
    fixAt   |-> << >>,      \* the attempts after which the repair was run
    delays  |-> << >> ]     \* the waits, in order

\* The error object of code r.
ErrnoException(r) == [isError |-> TRUE, code |-> r]

\* The answer of the attempt with index a.
Response(a) == safe.script[IF a + 1 > MaxScript THEN MaxScript ELSE a + 1]

\* The outcome reaches the caller: callback(err), resolve / reject, return /
\* throw.
Deliver(m, e) ==
  [m EXCEPT !.phase = "done", !.result = e, !.signals = @ + 1]

\* rmOnce(path, { ...opts, maxRetries: 0 }, cb)
rmOnce(m, a) ==
  [m EXCEPT !.phase = "rmOnce", !.attempt = a, !.tries = @ + 1,
            !.inner = Append(@, 0)]

\* ---------------------------------------------------------- callback form
\* retryIfNeeded that allows one retry more than maxRetries (mutant).
retryIfNeeded_OneMore(m, options, attempt, err) ==
  LET maxRetries == Nullish(options, "maxRetries", SAFE_DEFAULTS(safe.OSTYPE).maxRetries)
      retryDelay == Nullish(options, "retryDelay", SAFE_DEFAULTS(safe.OSTYPE).retryDelay)
  IN IF ~isRetryableError(ErrnoException(err)) \/ attempt > maxRetries
     THEN Deliver(m, err)
     ELSE [m EXCEPT !.phase = "sleep", !.err = err,
                    !.delays = Append(@, getBackoffDelay(retryDelay, attempt))]

\* retryIfNeeded that waits retryDelay whatever the attempt is (mutant).
retryIfNeeded_FixedDelay(m, options, attempt, err) ==
  LET maxRetries == Nullish(options, "maxRetries", SAFE_DEFAULTS(safe.OSTYPE).maxRetries)
      retryDelay == Nullish(options, "retryDelay", SAFE_DEFAULTS(safe.OSTYPE).retryDelay)
  IN IF ~isRetryableError(ErrnoException(err)) \/ attempt >= maxRetries
     THEN Deliver(m, err)
     ELSE [m EXCEPT !.phase = "sleep", !.err = err,
                    !.delays = Append(@, retryDelay)]

\* retryIfNeeded
retryIfNeeded(m, options, attempt, err) ==
  LET maxRetries == Nullish(options, "maxRetries", SAFE_DEFAULTS(safe.OSTYPE).maxRetries)
      retryDelay == Nullish(options, "retryDelay", SAFE_DEFAULTS(safe.OSTYPE).retryDelay)
  IN IF ~isRetryableError(ErrnoException(err)) \/ attempt >= maxRetries
     THEN Deliver(m, err)
     ELSE [m EXCEPT !.phase = "sleep", !.err = err,
                    !.delays = Append(@, getBackoffDelay(retryDelay, attempt))]

Turn(f) ==
  /\ safe.api = "safe"
  /\ \A g \in Before(f) : safe.run[g].phase = "done"

\* safeRm(path, options, callback): safeRmImpl with attempt 0.
safeRm_callback ==
  /\ Turn("callback") /\ safe.run["callback"].phase = "idle"
  /\ safe' = [safe EXCEPT !.run["callback"] = rmOnce(@, 0)]
  /\ UNCHANGED <<exists, kind, mode, isWindows, opts, node, top, env, calc>>

\* safeRmImpl whose repair, having removed the entry, goes on to the retry
\* check (mutant).
safeRmImpl_fix_Continues ==
  /\ Turn("callback") /\ safe.run["callback"].phase = "fix"
  /\ LET m == safe.run["callback"] IN
     safe' = [safe EXCEPT !.run["callback"] =
                retryIfNeeded(m, safe.options, m.attempt, m.err)]
  /\ UNCHANGED <<exists, kind, mode, isWindows, opts, node, top, env, calc>>

\* safeRmImpl: the callback of rmOnce.
safeRmImpl_rmOnce ==
  /\ Turn("callback") /\ safe.run["callback"].phase = "rmOnce"
  /\ LET m    == safe.run["callback"]
         o    == safeRmImpl_opts(safe.options, safe.OSTYPE)
         err  == Response(m.attempt).rm
     IN safe' = [safe EXCEPT !.run["callback"] =
                   IF err = "ok" THEN Deliver(m, "ok")
                   ELSE IF err = "ENOENT" /\ o.force THEN Deliver(m, "ok")
                   ELSE IF shouldFixEPERM(err)
                        THEN [m EXCEPT !.phase = "fix", !.err = err,
                                       !.fixAt = Append(@, m.attempt)]
                        ELSE retryIfNeeded(m, safe.options, m.attempt, err)]
  /\ UNCHANGED <<exists, kind, mode, isWindows, opts, node, top, env, calc>>

\* safeRmImpl: the callback of fixWinEPERM.
safeRmImpl_fix ==
  /\ Turn("callback") /\ safe.run["callback"].phase = "fix"
  /\ LET m      == safe.run["callback"]
         fixErr == Response(m.attempt).fix
     IN safe' = [safe EXCEPT !.run["callback"] =
                   IF fixErr = "ok" THEN Deliver(m, "ok")
                   ELSE retryIfNeeded(m, safe.options, m.attempt, m.err)]
  /\ UNCHANGED <<exists, kind, mode, isWindows, opts, node, top, env, calc>>

\* retryIfNeeded: the setTimeout callback, safeRmImpl with attempt + 1.
retryIfNeeded_timer ==
  /\ Turn("callback") /\ safe.run["callback"].phase = "sleep"
  /\ safe' = [safe EXCEPT !.run["callback"] = rmOnce(@, @.attempt + 1)]
  /\ UNCHANGED <<exists, kind, mode, isWindows, opts, node, top, env, calc>>

\* --------------------------------------------------------- awaitable form
\* safeRmPromise: the head of the for loop; falling out of the loop resolves.
safeRmPromise_for(m, attempt) ==
  IF attempt <= safeRmPromise_opts(safe.options, safe.OSTYPE).maxRetries
  THEN rmOnce(m, attempt)
  ELSE Deliver(m, "ok")

\* safeRmPromise: the retry check at the end of the catch block.
safeRmPromise_check(m, err) ==
  LET o == safeRmPromise_opts(safe.options, safe.OSTYPE) IN
  IF ~isRetryableError(ErrnoException(err)) \/ m.attempt >= o.maxRetries
  THEN Deliver(m, err)
  ELSE [m EXCEPT !.phase = "sleep", !.err = err,
                 !.delays = Append(@, getBackoffDelay(o.retryDelay, m.attempt))]

\* safeRm(path, options): safeRmPromise.
safeRm_promise ==
  /\ Turn("promise") /\ safe.run["promise"].phase = "idle"
  /\ safe' = [safe EXCEPT !.run["promise"] = safeRmPromise_for(@, 0)]
  /\ UNCHANGED <<exists, kind, mode, isWindows, opts, node, top, env, calc>>

\* safeRmPromise that skips the repair (mutant).
safeRmPromise_rmOnce_NoRepair ==
  /\ Turn("promise") /\ safe.run["promise"].phase = "rmOnce"
  /\ LET m    == safe.run["promise"]
         o    == safeRmPromise_opts(safe.options, safe.OSTYPE)
         err  == Response(m.attempt).rm
     IN safe' = [safe EXCEPT !.run["promise"] =
                   IF err = "ok" THEN Deliver(m, "ok")
                   ELSE IF err = "ENOENT" /\ o.force THEN Deliver(m, "ok")
                   ELSE safeRmPromise_check(m, err)]
  /\ UNCHANGED <<exists, kind, mode, isWindows, opts, node, top, env, calc>>

\* safeRmPromise: the awaited rmOnce settles.
safeRmPromise_rmOnce ==
  /\ Turn("promise") /\ safe.run["promise"].phase = "rmOnce"
  /\ LET m    == safe.run["promise"]
         o    == safeRmPromise_opts(safe.options, safe.OSTYPE)
         err  == Response(m.attempt).rm
     IN safe' = [safe EXCEPT !.run["promise"] =
                   IF err = "ok" THEN Deliver(m, "ok")
                   ELSE IF err = "ENOENT" /\ o.force THEN Deliver(m, "ok")
                   ELSE IF shouldFixEPERM(err)
                        THEN [m EXCEPT !.phase = "fix", !.err = err,
                                       !.fixAt = Append(@, m.attempt)]
                        ELSE safeRmPromise_check(m, err)]
  /\ UNCHANGED <<exists, kind, mode, isWindows, opts, node, top, env, calc>>

\* safeRmPromise: the awaited fixWinEPERM settles.
safeRmPromise_fix ==
  /\ Turn("promise") /\ safe.run["promise"].phase = "fix"
  /\ LET m      == safe.run["promise"]
         fixErr == Response(m.attempt).fix
     IN safe' = [safe EXCEPT !.run["promise"] =
                   IF fixErr = "ok" THEN Deliver(m, "ok")
                   ELSE safeRmPromise_check(m, m.err)]
  /\ UNCHANGED <<exists, kind, mode, isWindows, opts, node, top, env, calc>>

\* safeRmPromise: the awaited sleep is over; attempt++ and the loop test.
safeRmPromise_sleep ==
  /\ Turn("promise") /\ safe.run["promise"].phase = "sleep"
  /\ safe' = [safe EXCEPT !.run["promise"] = safeRmPromise_for(@, @.attempt + 1)]
  /\ UNCHANGED <<exists, kind, mode, isWindows, opts, node, top, env, calc>>

\* ------------------------------------------------------------ safeRmSync
\* safeRmSync: the head of the for loop.
safeRmSync_for(m, attempt) ==
  IF attempt <= safeRmSync_opts(safe.options, safe.OSTYPE).maxRetries
  THEN rmOnce(m, attempt)
  ELSE Deliver(m, "ok")

\* safeRmSync: the retry check at the end of the catch block.
safeRmSync_check(m, err) ==
  LET o == safeRmSync_opts(safe.options, safe.OSTYPE) IN
  IF ~isRetryableError(ErrnoException(err)) \/ m.attempt >= o.maxRetries
  THEN Deliver(m, err)
  ELSE [m EXCEPT !.phase = "sleep", !.err = err,
                 !.delays = Append(@, getBackoffDelay(o.retryDelay, m.attempt))]

\* safeRmSync: with maxRetries 0 the rm is called directly, with opts as they
\* are; otherwise the retry loop is entered.
safeRmSync ==
  /\ Turn("sync") /\ safe.run["sync"].phase = "idle"
  /\ LET o == safeRmSync_opts(safe.options, safe.OSTYPE) IN
     safe' = [safe EXCEPT !.run["sync"] =
                IF o.maxRetries = 0
                THEN [@ EXCEPT !.phase = "direct", !.tries = @ + 1,
                               !.inner = Append(@, o.maxRetries)]
                ELSE safeRmSync_for(@, 0)]
  /\ UNCHANGED <<exists, kind, mode, isWindows, opts, node, top, env, calc>>

\* safeRmSync, maxRetries 0: what the rm throws is thrown, its return is the
\* return.
safeRmSync_direct ==
  /\ Turn("sync") /\ safe.run["sync"].phase = "direct"
  /\ LET m   == safe.run["sync"]
         err == Response(0).rm
     IN safe' = [safe EXCEPT !.run["sync"] =
                   Deliver([m EXCEPT !.err = IF err = "ok" THEN "none" ELSE err], err)]
  /\ UNCHANGED <<exists, kind, mode, isWindows, opts, node, top, env, calc>>

\* safeRmSync: the rm of the loop returns or throws.
safeRmSync_rmSync ==
  /\ Turn("sync") /\ safe.run["sync"].phase = "rmOnce"
  /\ LET m    == safe.run["sync"]
         o    == safeRmSync_opts(safe.options, safe.OSTYPE)
         err  == Response(m.attempt).rm
     IN safe' = [safe EXCEPT !.run["sync"] =
                   IF err = "ok" THEN Deliver(m, "ok")
                   ELSE IF err = "ENOENT" /\ o.force THEN Deliver(m, "ok")
                   ELSE IF shouldFixEPERM(err)
                        THEN [m EXCEPT !.phase = "fix", !.err = err,
                                       !.fixAt = Append(@, m.attempt)]
                        ELSE safeRmSync_check(m, err)]
  /\ UNCHANGED <<exists, kind, mode, isWindows, opts, node, top, env, calc>>

\* safeRmSync: fixWinEPERMSync returns or throws.
safeRmSync_fix ==
  /\ Turn("sync") /\ safe.run["sync"].phase = "fix"
  /\ LET m      == safe.run["sync"]
         fixErr == Response(m.attempt).fix
     IN safe' = [safe EXCEPT !.run["sync"] =
                   IF fixErr = "ok" THEN Deliver(m, "ok")
                   ELSE safeRmSync_check(m, m.err)]
  /\ UNCHANGED <<exists, kind, mode, isWindows, opts, node, top, env, calc>>

\* safeRmSync: busyWait returns; attempt++ and the loop test.
safeRmSync_busyWait ==
  /\ Turn("sync") /\ safe.run["sync"].phase = "sleep"
  /\ safe' = [safe EXCEPT !.run["sync"] = safeRmSync_for(@, @.attempt + 1)]
  /\ UNCHANGED <<exists, kind, mode, isWindows, opts, node, top, env, calc>>

\* The safe variants are called on a path; no fallback engine is driven
\* directly.  A single rm attempt honours force, so it answers ENOENT only
\* when force is off.
SafeInit ==
  /\ exists = [n \in AllPaths |-> FALSE]
  /\ kind   = [n \in AllPaths |-> "file"]
  /\ mode = "none"
  /\ isWindows \in BOOLEAN
  /\ opts = [recursive |-> TRUE, force |-> TRUE, maxRetries |-> 0, retryDelay |-> 100]
  /\ node = [n \in Nodes |-> NodeInit]
  /\ top  = TopInit
  /\ env  = EnvInit
  /\ calc = CalcIdle
  /\ \E options \in {o \in OptionValues : o.recursive # {TRUE}},
        OSTYPE \in {"undefined", "msys"},
        script \in [1..MaxScript -> Responses] :
       /\ safeRmImpl_opts(options, OSTYPE).force =>
            \A i \in 1..MaxScript : script[i].rm # "ENOENT"
       /\ safe = [api |-> "safe", options |-> options, OSTYPE |-> OSTYPE,
                  script |-> script, run |-> [f \in SafeForms |-> CallInit]]

SafeNext ==
  \/ safeRm_callback
  \/ safeRmImpl_rmOnce
  \/ safeRmImpl_fix
  \/ retryIfNeeded_timer
  \/ safeRm_promise
  \/ safeRmPromise_rmOnce
  \/ safeRmPromise_fix
  \/ safeRmPromise_sleep
  \/ safeRmSync
  \/ safeRmSync_direct
  \/ safeRmSync_rmSync
  \/ safeRmSync_fix
  \/ safeRmSync_busyWait

SpecSafe == SafeInit /\ [][SafeNext]_vars

\* =========================================================================
\* All entry points
\* =========================================================================
\* A request is made of a fallback engine or of a safe variant.
AllInit == Init \/ SafeInit

AllNext == Next \/ SafeNext

SpecAll == AllInit /\ [][AllNext]_vars

\* ---------------------------------------------------------- with progress
\* The requests followed to their end are the recursive removals of a directory
\* with one or two entries below it and no symbolic link (the walks) ...
LiveInit ==
  /\ Init
  /\ opts.recursive
  /\ exists[Root] /\ kind[Root] = "dir"
  /\ \E n \in Nodes \ {Root} : ~exists[n]
  /\ \A n \in AllPaths : kind[n] # "link"

\* ... and the calls of the safe variants with the number of retries supplied
\* by the caller, force supplied or not, the other options left to their
\* defaults.
LiveSafeInit ==
  /\ SafeInit
  /\ safe.options.given /\ safe.options.maxRetries # {}
  /\ safe.options.recursive = {} /\ safe.options.retryDelay = {}
  /\ safe.OSTYPE = "undefined"

\* One request is followed: the caller makes no second one.
LiveNext ==
  \/ AsyncNext
  \/ SyncNext
  \/ \E n \in Nodes : ExternalRemove(n)
  \/ SafeNext

\* Every operation that was dispatched completes and every timer that was
\* armed fires: a step of an engine that can be taken is taken in the end.
\* Nothing is assumed of the other processes.
SpecLive ==
  /\ (LiveInit \/ LiveSafeInit) /\ [][LiveNext]_vars
  /\ WF_vars(AsyncNext \/ SyncNext)
  /\ WF_vars(SafeNext)

\* =========================================================================
\* Properties
\* =========================================================================

\* An error code, as opposed to "none" (nothing delivered) and "ok".
IsError(e) == e \notin {"none", "ok"}

\* The entry c of a walk is settled: removed (or found gone) without an error.
Settled(c) == node[c].phase = "skipped" \/ node[c].res = "ok"

\* The stat or the removal of the entry c ended with an error that force does
\* not tolerate.
ChildFailed(c) ==
  \/ IsError(node[c].res)
  \/ /\ node[c].statErr # "none"
     /\ ~(node[c].statErr = "ENOENT" /\ opts.force)

\* The engine has issued the rmdir of the directory d.
RmdirIssued(d) == node[d].fn = "rmdir"

\* C1: in the non-blocking engine the caller's completion callback is invoked
\* exactly once per request: never twice in any state, and once when nothing
\* of the request is in flight any more, under every interleaving of the
\* completions and every combination of successes and errors.
C1_CallbackExactlyOnce ==
  mode = "async" =>
    /\ top.cbCount <= 1
    /\ (top.started /\ Quiescent) => top.cbCount = 1

\* C1 witness: both entries of the walked directory failed their stat with a
\* fatal error, everything has completed, and the callback ran once.
C1_Witness ==
  /\ mode = "async" /\ Quiescent /\ top.cbCount = 1
  /\ Len(node[Root].entries) = 2
  /\ node["r/a"].statErr = "EACCES" /\ node["r/b"].statErr = "EACCES"
  /\ top.result = "EACCES"

\* C2: in both engines the rmdir of a directory is issued only when every
\* entry its enumeration returned is settled (removed successfully, or found
\* gone and tolerated under force).
C2_RmdirAfterChildren ==
  \A d \in Nodes :
    RmdirIssued(d) =>
      \A i \in 1..Len(node[d].entries) : Settled(node[d].entries[i])

\* C2 witness: the rmdir of a directory with two entries is issued after they
\* settled in the order opposite to the one the enumeration returned.
C2_Witness ==
  /\ mode = "async" /\ RmdirIssued(Root)
  /\ Len(node[Root].entries) = 2
  /\ node[Root].settled = <<node[Root].entries[2], node[Root].entries[1]>>

\* C3: when the stat or the removal of an entry of a walk ends with an error
\* that force does not tolerate, no rmdir is ever issued for its directory or
\* any ancestor, the request has terminated with failure, and no request
\* reports success while an entry whose removal failed is present.
C3_ChildErrorFailsWalk ==
  /\ \A c \in Nodes \ {Root} :
       ChildFailed(c) =>
         /\ \A d \in Ancestors(c) : ~RmdirIssued(d) /\ node[d].calls = 0
         /\ top.cbCount >= 1 /\ IsError(top.result)
  /\ top.result = "ok" =>
       \A n \in Nodes : ~(exists[n] /\ (IsError(node[n].res) \/ IsError(node[n].lastErr)))

\* C3 witness: the unlink of a file two levels down failed; the file and both
\* directories above it are still there and the request has failed.
C3_Witness ==
  /\ opts.recursive /\ top.cbCount = 1 /\ top.result = "EACCES"
  /\ node["r/a/c"].res = "EACCES" /\ node["r/a/c"].calls = 1
  /\ exists["r/a/c"] /\ exists["r/a"] /\ exists[Root]

\* C4: a request with recursive=true that no other process disturbed and that
\* ended with success has left no entry at or under the request path.
C4_SuccessRemovesAll ==
  (top.result = "ok" /\ opts.recursive /\ ~env.disturbed) =>
    \A n \in Nodes : ~exists[n]

\* C4 witness: a tree of two directories and two files was removed, every
\* entry by one successful call, and the request succeeded.
C4_Witness ==
  /\ top.result = "ok" /\ opts.recursive /\ ~env.disturbed
  /\ \A n \in Nodes : node[n].okCalls = 1 /\ ~exists[n]

\* The retry loop of the leaf operation on n has made a call.
LeafCalled(n) == node[n].calls >= 1

\* The leaf operation on n has terminated.
LeafDone(n) == LeafCalled(n) /\ node[n].phase = "done"

\* A code that is neither NotFound nor retryable.
IsFatal(e) == IsError(e) /\ e # "ENOENT" /\ e \notin RETRYABLE_CODES

\* C5: a leaf (unlink or rmdir) that has failed with a retryable code no more
\* than maxRetries times is not failed for it (so it makes its next call), and
\* one whose call succeeds after exactly maxRetries retryable failures has
\* terminated successfully with exactly maxRetries + 1 calls made.
C5_RetryThenSucceed ==
  \A n \in Nodes :
    /\ (LeafDone(n) /\ IsError(node[n].res) /\ node[n].lastErr \in RETRYABLE_CODES)
         => node[n].rtFails > opts.maxRetries
    /\ (node[n].okCalls = 1 /\ node[n].rtFails = opts.maxRetries)
         => /\ LeafDone(n) /\ node[n].res = "ok"
            /\ node[n].calls = opts.maxRetries + 1
    \* the same, counting the unlink / rmdir calls of the repair as calls too
    /\ ( /\ node[n].okCalls = 1 \/ node[n].fixOK
         /\ node[n].rtFails + node[n].fixRt = opts.maxRetries
         /\ ~node[n].fixBad )
         => /\ LeafDone(n) /\ node[n].res = "ok"
            /\ node[n].calls + node[n].fixCalls = opts.maxRetries + 1

\* C5 witness: with maxRetries >= 1 a leaf failed maxRetries times with a
\* retryable code and its next call removed the entry.
C5_Witness ==
  \E n \in Nodes :
    /\ opts.maxRetries >= 1
    /\ node[n].rtFails = opts.maxRetries /\ node[n].okCalls = 1
    /\ node[n].res = "ok" /\ node[n].calls = opts.maxRetries + 1 /\ ~exists[n]

\* C6 as stated: a leaf whose every attempt failed with a retryable code has
\* terminated with that error after exactly maxRetries + 1 calls.
C6_Original ==
  \A n \in Nodes :
    (LeafDone(n) /\ node[n].rtFails = node[n].calls)
      => /\ node[n].res = node[n].lastErr
         /\ node[n].calls = opts.maxRetries + 1

\* C6 amended: a leaf whose every attempt failed with a retryable code, and
\* which no permission repair completed, has terminated with the error of its
\* last attempt after exactly maxRetries + 1 calls of its retry loop.
C6_RetryExhausted ==
  \A n \in Nodes :
    (LeafDone(n) /\ node[n].rtFails = node[n].calls /\ ~node[n].fixOK)
      => /\ node[n].res = node[n].lastErr
         /\ node[n].calls = opts.maxRetries + 1

\* C6 witness: with maxRetries >= 1 every attempt of a leaf failed with EBUSY
\* and the leaf ended with EBUSY after maxRetries + 1 calls.
C6_Witness ==
  \E n \in Nodes :
    /\ opts.maxRetries >= 1 /\ LeafDone(n)
    /\ node[n].rtFails = opts.maxRetries + 1 /\ node[n].calls = opts.maxRetries + 1
    /\ node[n].res = "EBUSY" /\ exists[n]

\* C7: a leaf whose remove fails with a fatal code (neither ENOENT nor
\* retryable) has terminated with that code in the same step: no call and no
\* wait follows the failure, whatever maxRetries is; a first call that fails
\* so is the only call and no wait has occurred.
C7_FatalImmediate ==
  \A n \in Nodes :
    IsFatal(node[n].lastErr) =>
      /\ LeafDone(n) /\ node[n].res = node[n].lastErr
      /\ node[n].calls = node[n].rtFails + 1
      /\ node[n].waits = node[n].calls - 1
      /\ node[n].rtFails = 0 => (node[n].calls = 1 /\ node[n].waits = 0)

\* C7 witness: with maxRetries >= 1 the first unlink of an entry failed with
\* EACCES and the leaf ended with EACCES after that one call, without a wait.
C7_Witness ==
  \E n \in Nodes :
    /\ opts.maxRetries >= 1 /\ node[n].lastErr = "EACCES"
    /\ node[n].calls = 1 /\ node[n].waits = 0 /\ node[n].res = "EACCES"

\* C8: a leaf whose remove fails with ENOENT has terminated in the same step,
\* with success when force is set and with ENOENT otherwise; no call and no
\* wait follows it, whatever maxRetries and the attempt index are.
C8_NotFoundImmediate ==
  \A n \in Nodes :
    node[n].lastErr = "ENOENT" =>
      /\ LeafDone(n)
      /\ node[n].res = (IF opts.force THEN "ok" ELSE "ENOENT")
      /\ node[n].calls = node[n].attempt + 1
      /\ node[n].waits = node[n].attempt

\* C8 witness: with force set, the retry of a leaf (attempt 1) found the entry
\* gone and the leaf ended with success.
C8_Witness ==
  \E n \in Nodes :
    /\ opts.force /\ node[n].lastErr = "ENOENT" /\ node[n].attempt = 1
    /\ node[n].res = "ok" /\ node[n].waits = 1

\* C9: a request with force=true on a path that is absent when it starts (never
\* created, or removed by an earlier request that succeeded) has, once its
\* lstat completed, succeeded without any operation that changes the file
\* system, whatever recursive is.
C9_AbsentForceSucceeds ==
  /\ (env.prior = "ok" /\ top.started) => env.absentAtStart
  /\ (top.started /\ env.absentAtStart /\ opts.force /\ node[Root].phase # "lstat")
       => /\ top.cbCount = 1 /\ top.result = "ok"
          /\ env.mutations = 0
          /\ \A n \in Nodes : node[n].calls = 0 /\ node[n].fixes = 0

\* C9 witness: a request removed a tree and succeeded; repeated with force=true
\* and recursive=false on the now absent path it succeeded again.
C9_Witness ==
  /\ env.reqs = 2 /\ env.prior = "ok" /\ env.priorMut >= 2
  /\ opts.force /\ ~opts.recursive
  /\ top.cbCount = 1 /\ top.result = "ok" /\ env.mutations = 0

\* C10: a request with force=false on a path that is absent when it starts
\* has, once its lstat completed, failed with ENOENT, whatever recursive,
\* maxRetries and retryDelay are.
C10_AbsentNoForceFails ==
  (top.started /\ env.absentAtStart /\ ~opts.force /\ node[Root].phase # "lstat")
    => top.cbCount = 1 /\ top.result = "ENOENT"

\* C10 witness: with recursive=true and maxRetries >= 1 a request on an absent
\* path failed with ENOENT.
C10_Witness ==
  /\ env.absentAtStart /\ ~opts.force /\ opts.recursive /\ opts.maxRetries >= 1
  /\ top.cbCount = 1 /\ top.result = "ENOENT" /\ node[Root].statErr = "ENOENT"

\* The lstat of the request path has answered without an error.
RootStatOK ==
  top.started /\ node[Root].phase \notin {"idle", "lstat"} /\ node[Root].statErr = "none"

\* The paths that are present.
Present == {x \in AllPaths : exists[x]}

\* C11: a request with recursive=false whose path is a directory fails with
\* EISDIR whatever force is, without an enumeration, a stat of an entry, a
\* remove call or a mode change; the directory and its contents are as they
\* were when the request started, and the request repeated fails in the same
\* way.
C11_DirectoryNotRecursive ==
  /\ (RootStatOK /\ kind[Root] = "dir" /\ ~opts.recursive) =>
       /\ top.cbCount = 1 /\ top.result = "EISDIR"
       /\ node[Root].entries = << >> /\ node[Root].readErr = "none"
       /\ \A n \in Nodes : /\ node[n].calls = 0 /\ node[n].fixes = 0
                           /\ n # Root => node[n].phase = "idle"
       /\ env.mutations = 0 /\ env.modded = {}
       /\ ~env.disturbed => Present = env.exists0
  /\ (env.prior = "EISDIR" /\ RootStatOK) => top.result = "EISDIR"

\* C11 witness: a request with force=true and recursive=false on a directory
\* with two entries failed with EISDIR twice, and the entries are there.
C11_Witness ==
  /\ env.reqs = 2 /\ env.prior = "EISDIR" /\ opts.force /\ ~opts.recursive
  /\ top.cbCount = 1 /\ top.result = "EISDIR"
  /\ exists[Root] /\ exists["r/a"] /\ exists["r/b"]

\* The stat, the enumeration or the leaf removal of n ended with an error
\* other than ENOENT.
FailedOtherThanNotFound(n) ==
  \/ IsError(node[n].res) /\ node[n].res # "ENOENT"
  \/ node[n].statErr \notin {"none", "ENOENT"}
  \/ node[n].readErr \notin {"none", "ENOENT"}

\* The error codes with which operations of the request have ended.
ErrorsRaised ==
  UNION {{node[n].res, node[n].statErr, node[n].readErr} : n \in Nodes} \ {"none", "ok"}

\* C12: with force=true, once the stat of the request path, an enumeration,
\* the stat of an entry or a leaf removal has ended with an error other than
\* ENOENT, the request has failed with an error raised by one of them (in the
\* blocking engine: with that very error); a request that succeeded has seen
\* no such error, and no operation has ended with ENOENT as its error.
C12_ForceSuppressesOnlyNotFound ==
  opts.force =>
    /\ \A n \in Nodes :
         FailedOtherThanNotFound(n) =>
           /\ top.cbCount = 1 /\ IsError(top.result) /\ top.result # "ENOENT"
           /\ top.result \in ErrorsRaised
           /\ (mode = "sync" /\ IsError(node[n].res)) => top.result = node[n].res
    /\ \A n \in Nodes : node[n].res # "ENOENT"

\* C12 witness: with force=true the lstat of an entry of the walked directory
\* failed with EACCES and the request failed with EACCES.
C12_Witness ==
  /\ mode = "async" /\ opts.force /\ opts.recursive
  /\ node["r/a"].phase = "statfail" /\ node["r/a"].statErr = "EACCES"
  /\ top.cbCount = 1 /\ top.result = "EACCES"

\* The stat or the removal of the entry c answered ENOENT (and the walk had
\* not latched an error before).
ChildNotFound(c) ==
  \/ node[c].statErr = "ENOENT" /\ node[c].phase # "dropped"
  \/ node[c].lastErr = "ENOENT"

\* C13: with force=true an entry of a walk whose stat or removal answered
\* ENOENT counts as settled (it is taken off the pending count unless a sibling
\* has latched an error) and latches no error; a recursive request that met
\* no other failure has, when nothing of it is in flight, succeeded with the
\* tree removed.  With force=false such an entry fails the walk: no rmdir of
\* its directory is issued and the request has failed.
C13_ChildNotFound ==
  /\ \A c \in Nodes \ {Root} :
       ChildNotFound(c) =>
         IF opts.force
         THEN /\ Settled(c)
              /\ ~node[Parent(c)].hasError =>
                   \E i \in 1..Len(node[Parent(c)].settled) : node[Parent(c)].settled[i] = c
         ELSE /\ ~Settled(c) /\ ~RmdirIssued(Parent(c))
              /\ top.cbCount = 1 /\ IsError(top.result)
              /\ env.faults = 0 => top.result = "ENOENT"
  /\ (opts.force /\ opts.recursive /\ env.faults = 0 /\ top.started /\ Quiescent) =>
       /\ top.cbCount = 1 /\ top.result = "ok"
       /\ \A n \in Nodes : ~exists[n]

\* C13 witness: with force=true one of the two entries of the walked directory
\* was removed by another process before its stat; the other entry and then
\* the directory were removed and the request succeeded.
C13_Witness ==
  /\ opts.force /\ Len(node[Root].entries) = 2
  /\ \E c, s \in Children(Root) :
       /\ c # s /\ node[c].phase = "skipped" /\ node[c].statErr = "ENOENT"
       /\ node[s].okCalls = 1
  /\ node[Root].okCalls = 1 /\ top.cbCount = 1 /\ top.result = "ok"

\* C14: a directory whose enumeration answered ENOENT has ended, in both
\* engines, with success when force is set and with ENOENT otherwise, and no
\* rmdir of it was issued.
C14_VanishedBeforeEnumeration ==
  \A d \in Nodes :
    node[d].readErr = "ENOENT" =>
      /\ node[d].phase = "done"
      /\ node[d].res = (IF opts.force THEN "ok" ELSE "ENOENT")
      /\ ~RmdirIssued(d) /\ node[d].calls = 0
      /\ d = Root => (top.cbCount = 1 /\ top.result = node[d].res)

\* C14 witness: in each engine a directory vanished between its stat and its
\* enumeration: here the blocking one, with force=false, failed with ENOENT.
C14_Witness ==
  /\ mode = "sync" /\ ~opts.force
  /\ node[Root].readErr = "ENOENT" /\ node[Root].statErr = "none"
  /\ top.cbCount = 1 /\ top.result = "ENOENT"

\* What is outside the tree of the request is as it was when the request
\* started.
OutsideUntouched == Present \cap Outside = env.exists0 \cap Outside

\* C15 as stated: a request whose path is a symbolic link goes to the unlink
\* leaf; nothing is enumerated, the target of the link is never reached by a
\* stat and never removed; and a request that nothing disturbed has succeeded
\* with one unlink call and the link is gone.
C15_Original ==
  (RootStatOK /\ kind[Root] = "link") =>
    /\ node[Root].fn = "unlink"
    /\ node[Root].entries = << >> /\ node[Root].readErr = "none"
    /\ env.through = {}
    /\ OutsideUntouched
    /\ (top.cbCount = 1 /\ env.faults = 0 /\ ~env.disturbed) =>
         /\ top.result = "ok" /\ ~exists[Root] /\ node[Root].calls = 1

\* C16: an entry of a walk that is a symbolic link goes to the unlink leaf:
\* it is never enumerated or walked, no rmdir leaf is started on it, nothing
\* under its name is operated on, and what the link points at stays as it was;
\* the successful unlink removes the link itself.
C16_ChildLinkUnlinked ==
  \A c \in Nodes \ {Root} :
    (top.started /\ kind[c] = "link") =>
      /\ node[c].fn \in {"none", "unlink"}
      /\ node[c].phase \notin {"readdir", "wait", "rmdir"}
      /\ node[c].entries = << >> /\ node[c].readErr = "none"
      /\ \A x \in Descendants(c) : node[x].phase = "idle"
      /\ OutsideUntouched
      /\ node[c].okCalls = 1 => ~exists[c]

\* C16 witness: a directory holding a link to a live directory was removed;
\* the link went by one unlink call and the directory it pointed at, with its
\* entry, is still there.
C16_Witness ==
  /\ kind["r/a"] = "link" /\ kind[LinkTarget] = "dir"
  /\ node["r/a"].fn = "unlink" /\ node["r/a"].okCalls = 1 /\ ~exists["r/a"]
  /\ top.cbCount = 1 /\ top.result = "ok" /\ ~exists[Root]
  /\ exists[LinkTarget] /\ exists["t/c"]

\* The repair is running on n.
InRepair(n) == node[n].phase \in {"chmod", "stat", "fixrm"}

\* C19: a repair runs only on Windows and only for an attempt that failed with
\* EPERM; a mode is changed only by a repair; off Windows no repair is started
\* and no mode is changed, by any leaf of either engine.
C19_RepairOnlyWindowsEPERM ==
  /\ \A n \in Nodes :
       /\ InRepair(n) => /\ isWindows
                         /\ node[n].err = "EPERM" /\ node[n].lastErr = "EPERM"
       /\ node[n].fixes > 0 => isWindows /\ node[n].fn = "unlink"
  /\ env.modded # {} => (isWindows /\ \E n \in Nodes : node[n].fixes > 0)
  /\ ~isWindows => (env.modded = {} /\ \A n \in Nodes : node[n].fixes = 0)

\* C19 witness: on Windows an unlink failed with EPERM and the repair changed
\* the mode of the entry.
C19_Witness ==
  \E n \in Nodes :
    /\ isWindows /\ node[n].fixes = 1 /\ node[n].err = "EPERM"
    /\ env.modded = {n} /\ kind[n] = "file"

\* The repair of n has answered with a failure, and the leaf has made no
\* attempt since.
RepairFailed(n) ==
  /\ node[n].fixErr.who \in {"original", "step"}
  /\ node[n].attempt = node[n].fixAt
  /\ node[n].phase \in {"timer", "done"}

\* C20 as stated: whatever step of the repair fails, the repair delivers the
\* original error.
C20_Original ==
  \A n \in Nodes :
    RepairFailed(n) => node[n].fixErr = OriginalError("EPERM")

\* C20 amended: a repair whose mode change or stat fails delivers the original
\* error; one whose own rmdir / unlink fails delivers the error of that call,
\* which the leaf drops: in every case the leaf goes on with the original
\* error, retrying for it or ending with it.
C20_RepairFailureKeepsOriginal ==
  \A n \in Nodes :
    RepairFailed(n) =>
      /\ node[n].fixStep \in {"chmod", "stat"} => node[n].fixErr = OriginalError("EPERM")
      /\ node[n].fixStep = "rm" => node[n].fixErr.who = "step"
      /\ node[n].err = "EPERM"
      /\ node[n].phase = "done" => node[n].res = "EPERM"

\* C20 witness: the unlink of a repair failed with EBUSY, and the leaf ended
\* with the EPERM of its attempt.
C20_Witness ==
  \E n \in Nodes :
    /\ RepairFailed(n) /\ node[n].fixStep = "rm"
    /\ node[n].fixErr = StepError("EBUSY")
    /\ node[n].phase = "done" /\ node[n].res = "EPERM"

RECURSIVE IntPow(_, _)
IntPow(b, k) == IF k = 0 THEN 1 ELSE b * IntPow(b, k - 1)

\* floor(retryDelay * 1.2^n) in exact arithmetic: floor(retryDelay * 6^n / 5^n).
ExactBackoff(retryDelay, n) == (retryDelay * IntPow(6, n)) \div IntPow(5, n)

\* C17 as stated: getBackoffDelay(retryDelay, n) is floor(retryDelay * 1.2^n)
\* for every retryDelay and n; with retryDelay = 100 the delays of n = 0..3 are
\* 100, 120, 144, 172; the delay never decreases from one attempt to the next.
C17_Original ==
  calc.fn = "getBackoffDelay" =>
    /\ calc.delay = ExactBackoff(calc.baseDelay, calc.attempt)
    /\ (calc.baseDelay = 100 /\ calc.attempt <= 3) =>
         calc.delay = <<100, 120, 144, 172>>[calc.attempt + 1]
    /\ calc.delay >= calc.prev

\* C18: for every error, with any code or with none, the classifier of the
\* safe variants and the tests of the two fallback engines give the same
\* answer: retryable for EBUSY, EMFILE, ENFILE, ENOTEMPTY and EPERM, not
\* retryable for anything else.
C18_RetryableSetAgrees ==
  (calc.fn = "isRetryableError" /\ calc.err.isError) =>
    LET five == calc.err.code \in {"EBUSY", "EMFILE", "ENFILE", "ENOTEMPTY", "EPERM"}
    IN /\ calc.safe = five
       /\ calc.strictAsync = five
       /\ calc.strictSync = five

\* C18 witness: an error without a code was classified, and all three said
\* not retryable.
C18_Witness ==
  /\ calc.fn = "isRetryableError" /\ calc.err.isError /\ calc.err.code = "undefined"
  /\ ~calc.safe /\ ~calc.strictAsync /\ ~calc.strictSync

\* -------------------------------------------------------------------- C21
\* C21: the defaults of the options depend only on the profile. An entry point
\* of the strict profile (fallbackRm, fallbackRmSync) resolves an omitted
\* option to recursive=false, force=false, maxRetries=0, retryDelay=100; one
\* of the safe profile (safeRmPromise, safeRmImpl, safeRmSync) resolves it to
\* recursive=true, force=true, retryDelay=100 and maxRetries=10 on the Windows
\* platform family (win32, or an OSTYPE of msys or cygwin), 0 elsewhere; an
\* option the caller supplies is taken as supplied by all five.
C21_OptionDefaults ==
  calc.fn = "opts" =>
    LET o        == calc.options
        Supplied(name) == o.given /\ o[name] # {}
        Value(name)    == CHOOSE v \in o[name] : TRUE
        family   == isWindows \/ calc.OSTYPE \in {"msys", "cygwin"}
        strictD  == [recursive |-> FALSE, force |-> FALSE, maxRetries |-> 0,
                     retryDelay |-> 100]
        safeD    == [recursive |-> TRUE, force |-> TRUE,
                     maxRetries |-> IF family THEN 10 ELSE 0, retryDelay |-> 100]
    IN \A name \in {"recursive", "force", "maxRetries", "retryDelay"} :
         /\ \A f \in {"fallbackRm", "fallbackRmSync"} :
              calc[f][name] = IF Supplied(name) THEN Value(name) ELSE strictD[name]
         /\ \A f \in {"safeRmPromise", "safeRmImpl", "safeRmSync"} :
              calc[f][name] = IF Supplied(name) THEN Value(name) ELSE safeD[name]

\* On win32 the caller supplies force=false and retryDelay=125 and nothing
\* else: the safe profile keeps both and fills in recursive=true and
\* maxRetries=10, the strict profile fills in recursive=false and maxRetries=0.
C21_Witness ==
  /\ calc.fn = "opts" /\ isWindows /\ calc.options.given
  /\ calc.options.force = {FALSE} /\ calc.options.retryDelay = {125}
  /\ calc.options.recursive = {} /\ calc.options.maxRetries = {}
  /\ calc.safeRmImpl = [recursive |-> TRUE, force |-> FALSE, maxRetries |-> 10,
                        retryDelay |-> 125]
  /\ calc.fallbackRm = [recursive |-> FALSE, force |-> FALSE, maxRetries |-> 0,
                        retryDelay |-> 125]

\* -------------------------------------------------------------------- C22
\* The request has ended and nothing of it is in flight.
Terminal == top.cbCount >= 1 /\ Quiescent

\* What the removal of the leaf n comes to, read off the answers its calls
\* got: removed by a call of the retry loop or by the repair, gone (tolerated
\* under force), or the error of its last call; "?" when it was not run to
\* its end.
LeafWould(n) ==
  IF node[n].calls = 0 \/ node[n].phase # "done" THEN "?"
  ELSE IF node[n].okCalls > 0 \/ node[n].fixOK THEN "ok"
  ELSE IF node[n].lastErr = "ENOENT" /\ opts.force THEN "ok"
  ELSE node[n].lastErr

RECURSIVE Would(_)
RECURSIVE FirstBad(_, _, _)

\* The outcome of the entries es[i..] taken one after the other in the order
\* of the enumeration, the first that is not "ok" ending the walk; then that
\* of the rmdir of d.
FirstBad(d, es, i) ==
  IF i > Len(es) THEN LeafWould(d)
  ELSE IF Would(es[i]) = "ok" THEN FirstBad(d, es, i + 1)
  ELSE Would(es[i])

\* The outcome fallbackRmSync's order of evaluation gives for n with the
\* answers the operations on n and below it got; "?" when it depends on an
\* operation that was not performed.
Would(n) ==
  IF node[n].statErr # "none"
  THEN IF node[n].statErr = "ENOENT" /\ opts.force THEN "ok" ELSE node[n].statErr
  ELSE IF node[n].phase \in {"idle", "lstat", "dropped"} THEN "?"
  ELSE IF kind[n] = "dir"
       THEN IF n = Root /\ ~opts.recursive THEN "EISDIR"
            ELSE IF node[n].readErr # "none"
                 THEN IF node[n].readErr = "ENOENT" /\ opts.force THEN "ok"
                      ELSE node[n].readErr
                 ELSE IF node[n].phase = "readdir" THEN "?"
                 ELSE FirstBad(n, node[n].entries, 1)
       ELSE LeafWould(n)

\* The entries of the tree whose own stat, enumeration or removal ended with
\* an error that is not tolerated.
FailedEntries ==
  {n \in Nodes :
     \/ node[n].statErr # "none" /\ ~(node[n].statErr = "ENOENT" /\ opts.force)
     \/ node[n].readErr # "none" /\ ~(node[n].readErr = "ENOENT" /\ opts.force)
     \/ IsError(LeafWould(n)) /\ LeafWould(n) # "?"}

\* C22 as stated: for the same request and the same answers of the file
\* system to each operation, fallbackRm and fallbackRmSync end alike, with
\* success or with the same error code: the outcome of a request of either
\* engine is the one the blocking engine's order gives for the answers the
\* operations got.
C22_Original ==
  (Terminal /\ Would(Root) # "?") => top.result = Would(Root)

\* C22 as amended: for the same request and the same answers, both engines
\* succeed or both fail.  The blocking engine fails with the error of the
\* first failing entry in the order of the enumeration; the non-blocking
\* engine fails with the error of the entry that failed first in time, which
\* is the same code whenever only one entry failed.
C22_SameOutcome ==
  (Terminal /\ Would(Root) # "?") =>
    /\ (top.result = "ok") <=> (Would(Root) = "ok")
    /\ mode = "sync" => top.result = Would(Root)
    /\ (mode = "async" /\ top.result # "ok") =>
         /\ \E n \in FailedEntries \cup {Root} :
              top.result \in {node[n].statErr, node[n].readErr, LeafWould(n), "EISDIR"}
         /\ Cardinality(FailedEntries) <= 1 => top.result = Would(Root)

\* C22 witness: the non-blocking engine walked r; the unlink of r/b failed
\* first (EBUSY), the unlink of r/a, already issued, failed after it (EACCES).
\* The request failed with EBUSY, the blocking order gives EACCES.
C22_Witness ==
  /\ mode = "async" /\ Terminal
  /\ node[Root].entries = <<"r/a", "r/b">>
  /\ LeafWould("r/a") = "EACCES" /\ LeafWould("r/b") = "EBUSY"
  /\ top.result = "EBUSY" /\ Would(Root) = "EACCES"

\* -------------------------------------------------------------------- C23
\* C23: on every script of answers of the single rm attempts (and of the
\* repairs), the awaitable form and the callback form of safeRm make the same
\* number of attempts, run the repair after the same attempts, wait the same
\* delays in the same order and end alike: the promise resolves exactly when
\* the callback gets no error, and is rejected with the error the callback
\* gets otherwise; each form signals its outcome once.
C23_FormsAgree ==
  (safe.api = "safe" /\ safe.run["promise"].phase = "done") =>
    LET c == safe.run["callback"]
        p == safe.run["promise"]
    IN /\ c.phase = "done"
       /\ p.tries = c.tries
       /\ p.inner = c.inner
       /\ p.fixAt = c.fixAt
       /\ p.delays = c.delays
       /\ p.result = c.result
       /\ p.signals = 1 /\ c.signals = 1

\* C23 witness: win32, maxRetries 1, retryDelay 125; both attempts answer
\* EPERM and both repairs fail.  Each form made two attempts, ran the repair
\* after each, waited 125 ms once and ended with EPERM.
C23_Witness ==
  /\ safe.api = "safe" /\ isWindows
  /\ safe.run["promise"].phase = "done" /\ safe.run["callback"].phase = "done"
  /\ safe.run["promise"].tries = 2 /\ safe.run["callback"].tries = 2
  /\ safe.run["promise"].fixAt = <<0, 1>> /\ safe.run["callback"].fixAt = <<0, 1>>
  /\ safe.run["promise"].delays = <<125>> /\ safe.run["callback"].delays = <<125>>
  /\ safe.run["promise"].result = "EPERM" /\ safe.run["callback"].result = "EPERM"

\* -------------------------------------------------------------------- C24
\* A request is pending: started on a fallback engine and not yet signalled
\* to its caller, or a call of a safe variant that has not delivered its
\* outcome.
Pending ==
  \/ top.started /\ top.cbCount = 0
  \/ safe.api = "safe" /\ \E f \in SafeForms : safe.run[f].phase \notin {"idle", "done"}

\* C24: no request stays pending for ever: a request started on a fallback
\* engine is signalled to its caller (with success or with an error), also
\* when an entry of a walk had latched an error or had been found gone and
\* tolerated; a call of a safe variant, in each of its forms, delivers its
\* outcome.
C24_RequestEnds == []<>(~Pending)

\* C24 witness: the walk of r had tolerated r/a, found gone under force, and
\* latched the error of r/b; the request has ended with that error and
\* nothing of it is in flight.
C24_Witness ==
  /\ mode = "async" /\ opts.force /\ Terminal
  /\ node["r/a"].phase = "skipped"
  /\ node[Root].hasError /\ IsError(node["r/b"].res)
  /\ top.cbCount = 1 /\ top.result = node["r/b"].res

\* -------------------------------------------------------------------- C25
\* The step is the caller's next request.
IsNewRequest == env'.reqs # env.reqs

\* Strict path, one step: an entry is stat'ed once (its stat is only issued
\* to an entry not yet touched) and a directory is enumerated once, right
\* after its stat; the timer of a retry leads to the unlink / rmdir of the same
\* entry and to nothing else; an entry whose operation has ended stays as it
\* is, and so does the request once it is signalled.
StrictOnce ==
  IsNewRequest \/
    /\ \A n \in Nodes :
         /\ (node'[n].phase = "lstat" /\ node[n].phase # "lstat")
              => node[n].phase = "idle"
         /\ (node'[n].phase = "readdir" /\ node[n].phase # "readdir")
              => node[n].phase = "lstat"
         /\ node[n].phase = "timer"
              => /\ node'[n].phase \in {"timer", node[n].fn}
                 /\ node'[n].phase # "timer" =>
                      \A x \in Nodes \ {n} : node'[x].phase = node[x].phase
         /\ node[n].phase \in {"done", "skipped", "statfail", "dropped"}
              => node'[n].phase = node[n].phase
    /\ top.cbCount >= 1 => top' = top

\* Safe variants, as the claim has it: once a single rm attempt (the whole
\* top-level operation) has ended, no other is made.
SafeOnce ==
  (safe.api = "safe" /\ safe'.api = "safe") =>
    \A f \in SafeForms :
      safe.run[f].tries >= 1 => safe'.run[f].tries = safe.run[f].tries

\* Safe variants, as the code has it: a further attempt is made only after a
\* wait, which follows an attempt that failed with a retryable code and was
\* not repaired; it is one more whole rm attempt, called with maxRetries 0;
\* and there are at most maxRetries such further attempts.
SafeRetriesWhole ==
  (safe.api = "safe" /\ safe'.api = "safe") =>
    \A f \in SafeForms :
      LET m  == safe.run[f]
          m1 == safe'.run[f]
          o  == safeRmImpl_opts(safe.options, safe.OSTYPE)
      IN (m.tries >= 1 /\ m1.tries # m.tries) =>
           /\ m.phase = "sleep"
           /\ isRetryableError(ErrnoException(m.err))
           /\ m1.tries = m.tries + 1 /\ m1.tries <= o.maxRetries + 1
           /\ m1.phase = "rmOnce" /\ m1.inner[Len(m1.inner)] = 0

\* C25 as stated: in every profile the top-level operation of a request, once
\* it has succeeded or failed, is not executed again; a retry re-issues the
\* failing leaf primitive only.
C25_Original == [][StrictOnce /\ SafeOnce]_vars

\* C25 as amended: on the strict path (fallbackRm, fallbackRmSync) retrying
\* happens inside leaf removal only: no entry is stat'ed or enumerated twice
\* and a request that was signalled is not run again.  A safe variant retries
\* the whole single rm attempt: after an attempt that failed with a retryable
\* code and was not repaired it waits and makes one more attempt, validation
\* and walk included, with maxRetries 0 for the attempt itself, at most
\* maxRetries times.
C25_RetryScope == [][StrictOnce /\ SafeRetriesWhole]_vars

\* C25 witness: the second attempt of safeRm (callback form) is in flight: a
\* whole rm attempt made again after the first had failed.
C25_Witness ==
  /\ safe.api = "safe"
  /\ safe.run["callback"].phase = "rmOnce" /\ safe.run["callback"].tries = 2
  /\ safe.run["callback"].inner = <<0, 0>>
  /\ Len(safe.run["callback"].delays) = 1

\* -------------------------------------------------------------------- C26
\* The call of form f has failed with a retryable code at every attempt so
\* far, and no repair has cured it.
KeepsFailing(f) ==
  LET m == safe.run[f]
  IN /\ safe.api = "safe" /\ m.tries >= 1
     /\ m.result \notin {"ok"}
     /\ \A a \in 0..(m.tries - 1) :
          (a < m.tries - 1 \/ m.phase \in {"sleep", "done"}) =>
            /\ isRetryableError(ErrnoException(Response(a).rm))
            /\ Response(a).fix # "ok"

\* The number of waits of such a call: one before every try but the first,
\* maxRetries of them when it has ended, none after the last failed attempt.
BackoffCount(f) ==
  LET m == safe.run[f]
      o == safeRmImpl_opts(safe.options, safe.OSTYPE)
  IN KeepsFailing(f) =>
       /\ Len(m.delays) <= o.maxRetries
       /\ m.phase = "sleep" => Len(m.delays) = m.tries
       /\ m.phase \in {"rmOnce", "fix", "done"} => Len(m.delays) = m.tries - 1
       /\ m.phase = "done" =>
            /\ Len(m.delays) = o.maxRetries /\ m.tries = o.maxRetries + 1
            /\ m.result = Response(m.tries - 1).rm

\* The waits of such a call are the exact floor(retryDelay * 1.2^k).
BackoffExact(f) ==
  LET m == safe.run[f]
      o == safeRmImpl_opts(safe.options, safe.OSTYPE)
  IN KeepsFailing(f) =>
       \A i \in 1..Len(m.delays) : m.delays[i] = ExactBackoff(o.retryDelay, i - 1)

\* C26 as stated: on the safe profile, for a removal that keeps failing with a
\* retryable code, the wait before try k+2 is floor(retryDelay * 1.2^k), k
\* from 0; there are exactly maxRetries waits, none after the last failed
\* attempt.
C26_Original ==
  \A f \in SafeForms : BackoffCount(f) /\ BackoffExact(f)

SafeRepaired(f) ==
  LET m == safe.run[f]
  IN /\ safe.api = "safe" /\ m.fixAt # << >> /\ m.phase # "fix"
     /\ Response(m.fixAt[Len(m.fixAt)]).fix = "ok"

\* C28: when the permission repair succeeds after a failed attempt the removal
\* has ended with success in the same step: the attempt counter is the one of
\* the failed attempt, no wait was started after it and no remove call made
\* after it, also when the attempt equals maxRetries.  So it is for a leaf of
\* the fallback engines and for a call of a safe variant.
C28_RepairEndsRemoval ==
  /\ \A n \in Nodes :
       node[n].fixOK =>
         /\ node[n].phase = "done" /\ node[n].res = "ok" /\ node[n].cbs = 1
         /\ node[n].attempt = node[n].fixAt
         /\ node[n].waits = node[n].attempt
         /\ node[n].calls = node[n].attempt + 1
         /\ node[n].lastErr = "EPERM"
  /\ \A f \in SafeForms :
       SafeRepaired(f) =>
         LET m == safe.run[f]
         IN /\ m.phase = "done" /\ m.result = "ok" /\ m.signals = 1
            /\ m.attempt = m.fixAt[Len(m.fixAt)]
            /\ m.tries = m.attempt + 1
            /\ Len(m.delays) = m.attempt

\* C28 witness: with maxRetries 0 the only unlink of an entry failed with
\* EPERM, the repair removed the entry, and the leaf ended with success with
\* no wait and no other call.
C28_Witness ==
  \E n \in Nodes :
    /\ opts.maxRetries = 0 /\ node[n].fixOK /\ node[n].attempt = 0
    /\ node[n].calls = 1 /\ node[n].waits = 0 /\ node[n].res = "ok"
    /\ ~exists[n]

\* -------------------------------------------------------------------- C29
\* On Windows the latest remove call of the leaf n failed with EPERM: a repair
\* was started for it, and when the retry policy has answered (a wait is on,
\* or the leaf has failed with EPERM) the repair had run during this attempt.
RepairBeforePolicy(n) ==
  (isWindows /\ node[n].lastErr = "EPERM") =>
    /\ node[n].fixes >= 1
    /\ (node[n].phase = "timer" \/ (node[n].phase = "done" /\ node[n].res = "EPERM"))
         => node[n].fixAt = node[n].attempt

\* C29 as stated: on Windows, whenever the leaf remove of an entry fails with
\* EPERM the permission repair is attempted before the retry policy is
\* consulted, for the unlink of a file and for the rmdir of a directory that
\* has been emptied.
C29_Original == \A n \in Nodes : RepairBeforePolicy(n)

\* -------------------------------------------------------------------- C30
\* C30 as stated: within one leaf removal the permission repair is attempted
\* at most once, however many attempts fail with EPERM and whatever
\* maxRetries is.
C30_Original == \A n \in Nodes : node[n].fixes <= 1

\* C30 as amended: within one leaf removal the permission repair is attempted
\* once for every attempt that fails with EPERM on Windows, and never twice
\* for one attempt: a repair starts in the step in which the unlink of the
\* attempt fails with EPERM, any earlier repair of the leaf belongs to an
\* earlier attempt, and a leaf starts at most maxRetries + 1 repairs.
C30_RepairPerAttempt ==
  [][IsNewRequest \/
     \A n \in Nodes :
       node'[n].fixes # node[n].fixes =>
         /\ node'[n].fixes = node[n].fixes + 1
         /\ isWindows /\ node[n].phase = "unlink" /\ node'[n].lastErr = "EPERM"
         /\ node'[n].rtFails = node[n].rtFails + 1
         /\ node'[n].fixAt = node[n].attempt
         /\ node[n].fixes >= 1 => node[n].fixAt < node[n].attempt
         /\ node'[n].fixes <= opts.maxRetries + 1]_vars

\* C30 witness: the unlink of an entry failed with EPERM twice and the repair
\* was started after each failure, the second during attempt 1.
C30_Witness ==
  \E n \in Nodes :
    /\ node[n].fixes = 2 /\ node[n].fixAt = 1 /\ node[n].attempt = 1
    /\ node[n].calls = 2 /\ node[n].rtFails = 2 /\ node[n].lastErr = "EPERM"

\* -------------------------------------------------------------------- C31
\* C31: a leaf removal that has ended with failure delivered the error of its
\* latest remove attempt: also when the repair run after that attempt failed
\* with an error of its own, and also when earlier attempts had failed with
\* another code; a fatal failure after retryable ones ends the leaf with the
\* fatal error, no call and no wait following it.  A safe variant that has
\* failed delivered the error of its latest rm attempt.
C31_MostRecentError ==
  /\ \A n \in Nodes :
       (LeafDone(n) /\ node[n].res # "ok") =>
         /\ node[n].res = node[n].lastErr
         /\ node[n].calls = node[n].attempt + 1
         /\ IsFatal(node[n].lastErr) =>
              (node[n].calls = node[n].rtFails + 1 /\ node[n].waits = node[n].rtFails)
  /\ \A f \in SafeForms :
       (safe.api = "safe" /\ safe.run[f].phase = "done" /\ safe.run[f].result # "ok")
         => /\ safe.run[f].result = Response(safe.run[f].tries - 1).rm
            /\ safe.run[f].tries = safe.run[f].attempt + 1

\* C31 witness: on Windows the unlink of an entry failed with EPERM, the
\* unlink of the repair failed with EBUSY, and the leaf, out of retries, ended
\* with EPERM.
C31_Witness ==
  \E n \in Nodes :
    /\ LeafDone(n) /\ node[n].res = "EPERM" /\ node[n].lastErr = "EPERM"
    /\ node[n].fixStep = "rm" /\ node[n].fixErr = StepError("EBUSY")
    /\ node[n].attempt = opts.maxRetries

\* -------------------------------------------------------------------- C32
\* The attempt counter of the entry n is its own: it has been advanced once
\* for each wait of n, which follows a retryable failure of a call on n, and
\* the retry loop has made no more than maxRetries + 1 calls on n.
OwnCounter(n) ==
  /\ node[n].attempt <= node[n].rtFails
  /\ node[n].attempt <= opts.maxRetries
  /\ node[n].calls <= opts.maxRetries + 1
  /\ node[n].calls <= node[n].attempt + 1
  /\ node[n].calls = 0 => node[n].attempt = 0

\* C32 as stated: every unlink and every rmdir of a walk starts at attempt 0
\* and counts its own retries, and each entry receives at most maxRetries + 1
\* underlying remove calls.
C32_Original ==
  \A n \in Nodes :
    /\ OwnCounter(n)
    /\ node[n].calls + node[n].fixCalls <= opts.maxRetries + 1

\* C32 as amended: every unlink and every rmdir of a walk starts at attempt 0
\* and counts its own retries, and each entry receives at most maxRetries + 1
\* remove calls from its retry loop; on Windows the permission repair adds at
\* most one remove call of its own for each of these that failed with EPERM.
C32_OwnAttemptCounter ==
  \A n \in Nodes :
    /\ OwnCounter(n)
    /\ node[n].fixCalls <= node[n].fixes
    /\ node[n].fixes <= node[n].rtFails
    /\ node[n].fixes >= 1 => isWindows

\* C32 witness: with maxRetries 1 two entries of a directory each failed once
\* with EBUSY and were removed by their second call, and the rmdir of the
\* directory succeeded at attempt 0.
C32_Witness ==
  \E a, b \in Nodes :
    /\ a # b /\ a # Root /\ b # Root /\ Parent(a) = Parent(b)
    /\ opts.maxRetries = 1
    /\ \A x \in {a, b} : /\ LeafDone(x) /\ node[x].res = "ok"
                         /\ node[x].rtFails = 1 /\ node[x].calls = 2
                         /\ node[x].attempt = 1
    /\ LeafDone(Parent(a)) /\ node[Parent(a)].res = "ok"
    /\ node[Parent(a)].attempt = 0 /\ node[Parent(a)].calls = 1

\* -------------------------------------------------------------------- C33
\* The entries the enumeration of d returned, as a set.
EntriesOf(d) == {node[d].entries[i] : i \in 1..Len(node[d].entries)}

\* The pending count of a walked directory: never negative, the number of
\* entries less those that have settled; an rmdir of the directory has been
\* called only with the count at zero and no error latched.
PendingCount(d) ==
  node[d].entries # << >> =>
    /\ node[d].pending >= 0
    /\ node[d].pending = Len(node[d].entries) - Len(node[d].settled)
    /\ node[d].calls >= 1 => (node[d].pending = 0 /\ ~node[d].hasError)

\* One step of the walk of d: the readdir callback dispatches the stat of
\* every entry, none of them handled yet, and sets the count to their number;
\* the rmdir of d is initiated once, at attempt 0, by the step that takes the
\* count to zero with no error latched (further calls are its retries, which
\* follow a wait).
FanOutFanIn(d) ==
  /\ (node[d].phase = "readdir" /\ node'[d].phase = "wait") =>
       /\ node'[d].pending = Len(node'[d].entries) /\ node'[d].pending >= 1
       /\ \A i \in 1..Len(node'[d].entries) :
            LET c == node'[d].entries[i]
            IN node[c].phase = "idle" /\ node'[c].phase = "lstat"
  /\ (node'[d].entries # << >> /\ node'[d].calls # node[d].calls) =>
       \/ /\ node[d].calls = 0 /\ node[d].phase = "wait" /\ node[d].pending = 1
          /\ node'[d].pending = 0 /\ ~node'[d].hasError
          /\ node'[d].attempt = 0 /\ node'[d].calls = 1
       \/ node[d].phase = "timer" /\ node[d].pending = 0 /\ ~node[d].hasError

\* C33: in non-blocking mode, for a directory with n >= 1 entries the stat of
\* all n is dispatched before the completion of any is handled, the pending
\* count starts at n and never becomes negative, and the rmdir of the
\* directory is initiated at most once, only with the count at zero and no
\* error latched, in whatever order the completions arrive.
C33_FanOutFanIn ==
  /\ [](mode = "async" => \A d \in Nodes : PendingCount(d))
  /\ [][(mode = "async" /\ ~IsNewRequest) => \A d \in Nodes : FanOutFanIn(d)]_vars

\* C33 witness: the two entries of a directory settled in the order opposite
\* to the one they were enumerated in, and the rmdir of the directory was
\* called once.
C33_Witness ==
  \E d \in Nodes :
    /\ mode = "async" /\ Len(node[d].entries) = 2
    /\ node[d].settled = <<node[d].entries[2], node[d].entries[1]>>
    /\ node[d].pending = 0 /\ node[d].calls = 1 /\ node[d].phase = "done"

\* -------------------------------------------------------------------- C34
\* The error the entry c handed to the walk of its directory: the code of its
\* failed stat, or the outcome of its removal.
ChildError(c) ==
  IF node[c].phase = "statfail" THEN node[c].statErr ELSE node[c].res

\* The error the operation on n ended with is the code of a failed call on n
\* itself (its stat, its enumeration, its unlink or rmdir), the validation
\* error of a directory without recursive, or the error an entry of n handed
\* up.
ErrorSource(n) ==
  \/ n = Root /\ node[n].statErr = node[n].res
  \/ /\ n = Root /\ node[n].res = "EISDIR" /\ node[n].statErr = "none"
     /\ ~opts.recursive /\ node[n].calls = 0 /\ node[n].entries = << >>
  \/ node[n].readErr = node[n].res
  \/ LeafCalled(n) /\ node[n].lastErr = node[n].res
  \/ \E c \in EntriesOf(n) : ChildError(c) = node[n].res

\* A step of a request never replaces an error already delivered at a level
\* or to the caller; in the non-blocking engine the step that latches the
\* error of a directory delivers the error of the entry completing in it.
FirstErrorKept ==
  /\ \A n \in Nodes : IsError(node[n].res) => node'[n].res = node[n].res
  /\ IsError(top.result) => top'.result = top.result
  /\ \A d \in Nodes :
       (~node[d].hasError /\ node'[d].hasError) =>
         \E c \in Nodes :
           /\ Parent(c) = d /\ c # Root /\ node'[c] # node[c]
           /\ IsError(node'[d].res)
           /\ node'[d].res = IF node'[c].phase = "statfail"
                             THEN node'[c].statErr ELSE node'[c].res

\* C34: an error raised by a stat, an enumeration or a leaf removal anywhere
\* in the tree reaches the caller with the same code: the error of every
\* level is the code of a failed call at that level or the error an entry
\* handed up, the caller receives the error of the request path, and the
\* error first latched at a level is never replaced.
C34_ErrorPropagates ==
  /\ [](/\ \A n \in Nodes : IsError(node[n].res) => ErrorSource(n)
        /\ top.cbCount >= 1 => top.result = node[Root].res)
  /\ [][~IsNewRequest => FirstErrorKept]_vars

\* C34 witness: the unlink of a file two levels down ended with EBUSY, and
\* EBUSY is what both directories above it and the caller
\* got, although the stat of a sibling failed with another code afterwards.
C34_Witness ==
  /\ top.cbCount = 1 /\ top.result = "EBUSY"
  /\ node["r/a/c"].lastErr = "EBUSY" /\ node["r/a/c"].res = "EBUSY"
  /\ node["r/a"].res = "EBUSY" /\ node[Root].res = "EBUSY"
  /\ node["r/b"].statErr = "EACCES"

\* -------------------------------------------------------------------- C35
\* safeRmSync has handled the script of answers as the callback form of
\* safeRm did: the same attempts, the repair after the same attempts, the
\* same waits and the same outcome.
SyncAsCallback ==
  LET c == safe.run["callback"]
      s == safe.run["sync"]
  IN /\ c.phase = "done"
     /\ s.tries = c.tries
     /\ s.fixAt = c.fixAt
     /\ s.delays = c.delays
     /\ s.result = c.result

\* C35: safeRmSync and safeRm handle a failed attempt alike for every
\* maxRetries, 0 included (NotFound under force tolerated, the repair run
\* under the same conditions, the same retry decision), so both end with the
\* same outcome on the same sequence of answers.
C35_Original ==
  (safe.api = "safe" /\ safe.run["sync"].phase = "done") => SyncAsCallback

\* The part of C35 that holds: a request whose maxRetries resolves to 1 or
\* more is handled alike by safeRmSync and safeRm.
C35_AgreeWithRetries ==
  (/\ safe.api = "safe" /\ safe.run["sync"].phase = "done"
   /\ safeRmSync_opts(safe.options, safe.OSTYPE).maxRetries >= 1) => SyncAsCallback

\* On win32 with maxRetries 0 the attempt answered EPERM and the repair would
\* have removed the entry: safeRm ran the repair and succeeded, safeRmSync
\* ran none and failed with EPERM.
C35_Diverged ==
  /\ safe.api = "safe" /\ isWindows
  /\ safeRmSync_opts(safe.options, safe.OSTYPE).maxRetries = 0
  /\ safe.run["callback"].result = "ok" /\ safe.run["callback"].fixAt = <<0>>
  /\ safe.run["sync"].result = "EPERM" /\ safe.run["sync"].fixAt = << >>

\* -------------------------------------------------------------------- C36
\* C36: the Windows determination is one capability: wherever the safe
\* profile defaults maxRetries to 10 an EPERM failure is eligible for the
\* permission repair, and wherever the repair is eligible the safe default
\* of maxRetries is 10.
C36_Original ==
  safe.api = "safe" =>
    (SAFE_DEFAULTS(safe.OSTYPE).maxRetries = 10 <=> shouldFixEPERM("EPERM"))

\* The direction of C36 that holds: where the repair is eligible the safe
\* default of maxRetries is 10.
C36_RepairImpliesDefault ==
  (safe.api = "safe" /\ shouldFixEPERM("EPERM")) =>
    SAFE_DEFAULTS(safe.OSTYPE).maxRetries = 10

\* OSTYPE is msys on a platform other than win32, maxRetries is left to its
\* default: safeRm made eleven attempts, each answered EPERM, and ran no
\* repair.
C36_Diverged ==
  /\ safe.api = "safe" /\ ~isWindows /\ safe.OSTYPE = "msys"
  /\ safe.run["callback"].phase = "done"
  /\ safe.run["callback"].tries = 11
  /\ safe.run["callback"].result = "EPERM"
  /\ safe.run["callback"].fixAt = << >>

\* -------------------------------------------------------------------- C37
\* Every attempt of the call f so far failed with a retryable code and was
\* not ended by a repair.
AllAttemptsRetryable(f) ==
  LET m == safe.run[f]
  IN \A a \in 0..(m.tries - 1) :
       /\ isRetryableError(ErrnoException(Response(a).rm))
       /\ ~(shouldFixEPERM(Response(a).rm) /\ Response(a).fix = "ok")

\* The rm invocations of the call f: each carries maxRetries 0, there are
\* never more than maxRetries + 1 of them, and exactly that many when the
\* call has ended after nothing but retryable failures.
NoCompounding(f) ==
  LET m == safe.run[f]
      o == safeRmImpl_opts(safe.options, safe.OSTYPE)
  IN /\ Len(m.inner) = m.tries
     /\ \A i \in 1..Len(m.inner) : m.inner[i] = 0
     /\ m.tries <= o.maxRetries + 1
     /\ (m.phase = "done" /\ AllAttemptsRetryable(f)) => m.tries = o.maxRetries + 1

\* C37: in the safe profile retries do not compound: every invocation of the
\* underlying rm made by safeRm or safeRmSync carries maxRetries = 0, and one
\* safe request invokes it at most maxRetries + 1 times, exactly that many
\* when every attempt fails with a retryable code and no repair succeeds.
C37_NoCompounding ==
  safe.api = "safe" => \A f \in SafeForms : NoCompounding(f)

\* C37 witness: maxRetries left to the win32 default of 10; every form made
\* eleven invocations, each with maxRetries 0, all answered EBUSY.
C37_Witness ==
  /\ safe.api = "safe"
  /\ \A f \in SafeForms :
       /\ safe.run[f].phase = "done" /\ safe.run[f].result = "EBUSY"
       /\ safe.run[f].tries = 11
       /\ safe.run[f].inner = [i \in 1..11 |-> 0]

\* -------------------------------------------------------------------- C38
\* An entry dropped by the walk of its directory: the error of the directory
\* was latched, no call was ever made on the entry, nothing below it was
\* touched, and it is present if its stat found it.
DroppedUntouched(c) ==
  node[c].phase = "dropped" =>
    /\ node[Parent(c)].hasError
    /\ node[c].calls = 0 /\ node[c].okCalls = 0 /\ node[c].fixCalls = 0
    /\ node[c].fn = NodeInit.fn /\ node[c].entries = << >>
    /\ node[c].res = "none"
    /\ \A x \in Nodes : c \in Ancestors(x) => node[x] = NodeInit
    /\ node[c].statErr = "none" => exists[c]

\* A step taken while the error of the directory of c is latched: if it is
\* the completion of the stat of c, c is dropped and left as it is; a dropped
\* entry stays as it is; whatever completes, the pending count, the error and
\* the signal of the directory and the outcome the caller got do not change.
AfterLatch(c) ==
  LET d == Parent(c) IN
  node[d].hasError =>
    /\ (node[c].phase = "lstat" /\ node'[c].phase # "lstat") =>
         /\ node'[c].phase = "dropped"
         /\ node'[c].calls = 0 /\ node'[c].fn = node[c].fn
         /\ exists' = exists
    /\ node[c].phase = "dropped" =>
         /\ node'[c] = node[c] /\ exists'[c] = exists[c]
    /\ node'[d].hasError
    /\ node'[d].pending = node[d].pending
    /\ node'[d].res = node[d].res /\ node'[d].cbs = node[d].cbs
    /\ node'[d].calls = node[d].calls
    /\ top' = top

\* C38: in non-blocking mode, once an error is latched at a directory level,
\* no removal is started at that level for an entry whose stat completes
\* afterwards: the entry is neither unlinked nor walked and remains, and the
\* completions of removals already in flight change neither the pending
\* count nor the error reported.
C38_LatchedLevel ==
  /\ [](mode = "async" => \A c \in Nodes \ {Root} : DroppedUntouched(c))
  /\ [][(mode = "async" /\ ~IsNewRequest) =>
          \A c \in Nodes \ {Root} : AfterLatch(c)]_vars

\* C38 witness: the stat of r/b failed and latched the error of r; r/a, a
\* directory, was stat'ed afterwards and dropped: it and the file in it are
\* still present, and the caller got the error once.
C38_Witness ==
  /\ mode = "async" /\ top.cbCount = 1 /\ top.result = "EACCES"
  /\ node["r/b"].phase = "statfail" /\ node["r/b"].statErr = "EACCES"
  /\ node["r/a"].phase = "dropped" /\ node["r/a"].statErr = "none"
  /\ kind["r/a"] = "dir" /\ exists["r/a"] /\ exists["r/a/c"]
  /\ node["r/a/c"].phase = "idle"
  /\ Quiescent

\* -------------------------------------------------------------------- C39
\* The walk of d in the blocking engine takes the entries one at a time, in
\* the order of the enumeration: an entry is started on only when every entry
\* before it is settled.
InEnumerationOrder(d) ==
  \A i \in 1..Len(node[d].entries) :
    node[node[d].entries[i]] # NodeInit =>
      /\ i <= node[d].idx
      /\ \A j \in 1..(i - 1) : Settled(node[d].entries[j])

\* The walk of d stopped at its first entry to fail: no entry after it was
\* stat'ed, walked or removed, nothing below such an entry was touched, no
\* call was made on d, and what no other process removed is present with its
\* mode as it was.
StopsAtFirstFailure(d) ==
  \A i \in 1..Len(node[d].entries) :
    ChildFailed(node[d].entries[i]) =>
      /\ node[d].idx = i
      /\ node[d].calls = 0 /\ node[d].res = ChildError(node[d].entries[i])
      /\ d \notin env.modded
      /\ ~env.disturbed => exists[d]
      /\ \A j \in (i + 1)..Len(node[d].entries) :
           LET x == node[d].entries[j] IN
           /\ node[x] = NodeInit
           /\ \A y \in Descendants(x) : node[y] = NodeInit
           /\ ({x} \cup Descendants(x)) \cap env.modded = {}
           /\ ~env.disturbed =>
                \A y \in {x} \cup Descendants(x) : exists[y] <=> y \in env.exists0

\* C39: in blocking mode the entries of a directory are processed one at a
\* time in enumeration order and the walk stops at the first entry that
\* fails: no sibling after it is stat'ed, walked or removed, and those
\* entries and the directory itself remain as they were.
C39_StopsAtFirstFailure ==
  mode = "sync" =>
    \A d \in Nodes : InEnumerationOrder(d) /\ StopsAtFirstFailure(d)

\* C39 witness: r/b was enumerated before r/a and its unlink failed: the
\* directory r/a and the file in it were never stat'ed and are present, r is
\* present, and the request failed.
C39_Witness ==
  /\ mode = "sync" /\ top.cbCount = 1 /\ top.result = "EACCES"
  /\ node[Root].entries = <<"r/b", "r/a">>
  /\ node["r/b"].res = "EACCES" /\ node["r/b"].calls = 1
  /\ node["r/a"] = NodeInit /\ node["r/a/c"] = NodeInit
  /\ exists["r/a"] /\ exists["r/a/c"] /\ exists["r/b"] /\ exists[Root]

\* -------------------------------------------------------------------- C40
\* C40: every mutation issued for a request (unlink, rmdir, the mode change of
\* the repair) targets the request path or a path beneath it; nothing outside
\* that subtree, the target of a symbolic link included, is removed or
\* modified, in either engine and on any outcome.
C40_Original ==
  top.started =>
    /\ OutsideUntouched
    /\ env.modded \cap Outside = {}

\* The part of C40 that holds: nothing outside the subtree is ever removed,
\* and off Windows no mode is changed at all.
C40_RemovalsInside ==
  top.started =>
    /\ OutsideUntouched
    /\ ~isWindows => env.modded = {}

\* The request path is a symbolic link to a file, on win32; its unlink failed
\* with EPERM and the repair changed the mode of the file the link points at.
C40_Diverged ==
  /\ top.started /\ isWindows
  /\ kind[Root] = "link" /\ exists[LinkTarget]
  /\ node[Root].fixes >= 1
  /\ LinkTarget \in env.modded

====
